---------------------------- MODULE Spec2Model ----------------------------
(***************************************************************************)
(* Model of the markdown formatter of cmd/format/k8s.go: the scanner of    *)
(* protected regions, the three formatting rules (spacing, punctuation,    *)
(* linebreaks), the line breaker and the pipeline applyFormattingRules.    *)
(*                                                                         *)
(* A text is a sequence of Unicode code points (a well-formed UTF-8        *)
(* string); every offset the code computes on the Go string is a byte      *)
(* offset and is computed here through the UTF-8 width of each code point. *)
(***************************************************************************)
EXTENDS Integers, Sequences, FiniteSets, TLC

(***************************************************************************)
(* Code points the source names in its literals and patterns.              *)
(***************************************************************************)
Ch ==
  [ tab |-> 9, nl |-> 10, sp |-> 32, bang |-> 33, hash |-> 35, pct |-> 37,
    lpar |-> 40, rpar |-> 41, star |-> 42, comma |-> 44, dash |-> 45,
    dot |-> 46, slash |-> 47, d0 |-> 48, d1 |-> 49, d9 |-> 57, colon |-> 58,
    semi |-> 59, lt |-> 60, gt |-> 62, quest |-> 63, uA |-> 65, uZ |-> 90,
    lbrk |-> 91, rbrk |-> 93, under |-> 95, tick |-> 96, a |-> 97, b |-> 98,
    h |-> 104, p |-> 112, s |-> 115, t |-> 116, x |-> 120, z |-> 122,
    lbrace |-> 123, bar |-> 124, rbrace |-> 125,
    \* U+3002 and the full-width marks U+FF01 U+FF08 U+FF09 U+FF0C U+FF1A U+FF1B U+FF1F
    fstop |-> 12290, fbang |-> 65281, flpar |-> 65288, frpar |-> 65289,
    fcomma |-> 65292, fcolon |-> 65306, fsemi |-> 65307, fquest |-> 65311,
    \* U+4E00 (first of the pattern [U+4E00-U+9FAF]), U+4E2D, U+6587, U+9FAF (last of the
    \* pattern), U+9FB0 (the next code point), U+9FFF (last of isChinese)
    hanFirst |-> 19968, zh |-> 20013, wen |-> 25991, hanPatLast |-> 40879,
    hanExt |-> 40880, hanLast |-> 40959 ]

(***************************************************************************)
(* Strings: UTF-8 widths, byte offsets, the strings package.               *)
(***************************************************************************)
\* The number of bytes of the UTF-8 encoding of code point c.
RuneLen(c) ==
  IF c < 128 THEN 1 ELSE IF c < 2048 THEN 2 ELSE IF c < 65536 THEN 3 ELSE 4

\* The UTF-8 encoding of code point c, as the sequence of its bytes.
Utf8(c) ==
  IF c < 128 THEN <<c>>
  ELSE IF c < 2048 THEN <<192 + (c \div 64), 128 + (c % 64)>>
  ELSE IF c < 65536
    THEN <<224 + (c \div 4096), 128 + ((c \div 64) % 64), 128 + (c % 64)>>
    ELSE <<240 + (c \div 262144), 128 + ((c \div 4096) % 64),
           128 + ((c \div 64) % 64), 128 + (c % 64)>>

\* len(s) of a Go string: its length in bytes, the sum of RuneLen over its runes
\* (one byte each, and one more for each threshold of RuneLen the rune reaches).
ByteLen(s) ==
  Len(s) + Cardinality({i \in 1..Len(s) : s[i] >= 128})
         + Cardinality({i \in 1..Len(s) : s[i] >= 2048})
         + Cardinality({i \in 1..Len(s) : s[i] >= 65536})

RECURSIVE Bytes(_)
\* []byte(s): the encodings of the runes, concatenated (by halves).
Bytes(s) ==
  IF s = <<>> THEN <<>>
  ELSE IF Len(s) = 1 THEN Utf8(s[1])
  ELSE Bytes(SubSeq(s, 1, Len(s) \div 2))
       \o Bytes(SubSeq(s, (Len(s) \div 2) + 1, Len(s)))

\* The byte offset at which the rune of 1-based index i starts.
ByteOffset(s, i) == ByteLen(SubSeq(s, 1, i - 1))

\* s[from:] and s[:to] on runes, 0-based as in Go.
RunesFrom(s, from) == SubSeq(s, from + 1, Len(s))
RunesTo(s, to) == SubSeq(s, 1, to)

\* Whether pat occurs in s at the 1-based rune index i.
MatchAt(s, pat, i) ==
  /\ i >= 1
  /\ i + Len(pat) - 1 <= Len(s)
  /\ \A k \in 1..Len(pat) : s[i + k - 1] = pat[k]

\* The 1-based rune index of the first occurrence of pat in s, 0 if none.
FirstIndex(s, pat) ==
  IF \E i \in 1..Len(s) : MatchAt(s, pat, i)
    THEN CHOOSE i \in 1..Len(s) :
           MatchAt(s, pat, i) /\ \A j \in 1..(i - 1) : ~MatchAt(s, pat, j)
    ELSE 0

\* strings.Contains
Contains(s, pat) == pat = <<>> \/ \E i \in 1..Len(s) : MatchAt(s, pat, i)

\* strings.Index: the byte index of the first occurrence, -1 if none.
Index(s, pat) ==
  IF pat = <<>> THEN 0
  ELSE IF FirstIndex(s, pat) = 0 THEN -1 ELSE ByteOffset(s, FirstIndex(s, pat))

\* strings.HasPrefix, strings.HasSuffix
HasPrefix(s, pat) == MatchAt(s, pat, 1)
HasSuffix(s, pat) == Len(pat) <= Len(s) /\ MatchAt(s, pat, Len(s) - Len(pat) + 1)

\* strings.Count of a one-rune pattern.
Count(s, c) == Cardinality({i \in 1..Len(s) : s[i] = c})

\* unicode.IsSpace
IsSpace(c) ==
  \/ c \in {9, 10, 11, 12, 13, 32, 133, 160, 5760, 8232, 8233, 8239, 8287, 12288}
  \/ c \in 8192..8202

\* strings.TrimSpace
TrimSpace(s) ==
  IF \A i \in 1..Len(s) : IsSpace(s[i]) THEN <<>>
  ELSE LET lo == CHOOSE i \in 1..Len(s) :
                   ~IsSpace(s[i]) /\ \A j \in 1..(i - 1) : IsSpace(s[j])
           hi == CHOOSE i \in 1..Len(s) :
                   ~IsSpace(s[i]) /\ \A j \in (i + 1)..Len(s) : IsSpace(s[j])
       IN SubSeq(s, lo, hi)

RECURSIVE Split(_)
\* strings.Split(s, "\n")
Split(s) ==
  IF \A i \in 1..Len(s) : s[i] # Ch.nl THEN <<s>>
  ELSE LET i == CHOOSE i \in 1..Len(s) :
                  s[i] = Ch.nl /\ \A j \in 1..(i - 1) : s[j] # Ch.nl
       IN <<SubSeq(s, 1, i - 1)>> \o Split(SubSeq(s, i + 1, Len(s)))

RECURSIVE Join(_)
\* strings.Join(lines, "\n")
Join(lines) ==
  IF lines = <<>> THEN <<>>
  ELSE IF Len(lines) = 1 THEN lines[1]
  ELSE lines[1] \o <<Ch.nl>> \o Join(Tail(lines))

\* Replace every occurrence of the one-rune string from by the one-rune string to.
ReplaceAll(s, from, to) == [i \in 1..Len(s) |-> IF s[i] = from THEN to ELSE s[i]]

\* strings.Repeat on a rune sequence.
Rep(s, n) == [i \in 1..(n * Len(s)) |-> s[((i - 1) % Len(s)) + 1]]

(***************************************************************************)
(* Character classes of the patterns.                                      *)
(***************************************************************************)
\* The pattern class [U+4E00-U+9FAF] of the spacing and punctuation rules.
IsHanPat(c) == c >= Ch.hanFirst /\ c <= Ch.hanPatLast

\* isChinese: char >= 0x4e00 && char <= 0x9fff
isChinese(c) == c >= Ch.hanFirst /\ c <= Ch.hanLast

\* [a-zA-Z0-9]
IsAlnum(c) ==
  \/ (c >= Ch.a /\ c <= Ch.z)
  \/ (c >= Ch.uA /\ c <= Ch.uZ)
  \/ (c >= Ch.d0 /\ c <= Ch.d9)

\* \d
IsDigit(c) == c >= Ch.d0 /\ c <= Ch.d9

\* \w
IsWord(c) == IsAlnum(c) \/ c = Ch.under

\* \s of Go's regexp: [\t\n\f\r ]
IsReSpace(c) == c \in {9, 10, 12, 13, 32}

(***************************************************************************)
(* identifyProtectedRegions                                                *)
(***************************************************************************)
Fence == <<Ch.tick, Ch.tick, Ch.tick>>
HugoOpen1 == <<Ch.lbrace, Ch.lbrace, Ch.lt, Ch.slash, Ch.star>>
HugoOpen2 == <<Ch.lbrace, Ch.lbrace, Ch.pct, Ch.slash, Ch.star>>
HugoClose1 == <<Ch.star, Ch.slash, Ch.rbrace, Ch.rbrace>>
HugoClose2 == <<Ch.star, Ch.slash, Ch.pct, Ch.rbrace, Ch.rbrace>>
CommentOpen == <<Ch.lt, Ch.bang, Ch.dash, Ch.dash>>
CommentClose == <<Ch.dash, Ch.dash, Ch.gt>>

Region(s, e, t) == [start |-> s, end |-> e, regionType |-> t]

\* findInlineCodeRegions: the first backtick opens a span (inCode), the next
\* closes it and emits a region, and so on: the backticks of odd rank open, those
\* of even rank close. A last backtick left open emits nothing.
findInlineCodeRegions(line, lineStart) ==
  LET ticks == {i \in 1..Len(line) : line[i] = Ch.tick}
      rank(i) == Cardinality({j \in ticks : j <= i})
      tick(r) == CHOOSE i \in ticks : rank(i) = r
  IN [k \in 1..(Cardinality(ticks) \div 2) |->
        Region(lineStart + ByteOffset(line, tick(2 * k - 1)),
               lineStart + ByteOffset(line, tick(2 * k)) + 1, "inline_code")]

\* The end (1-based index of the rune after the match) of a match of the pattern
\* open [^stop]* close starting at rune i, 0 if there is none. close starts with
\* stop, so the class can only end at the first stop after open.
ReMatchEnd(line, open, stop, close, i) ==
  IF ~MatchAt(line, open, i) THEN 0
  ELSE LET from == i + Len(open)
           qs == {q \in from..Len(line) : line[q] = stop}
       IN IF qs = {} THEN 0
          ELSE LET q == CHOOSE q \in qs : \A r \in qs : q <= r
               IN IF MatchAt(line, close, q) THEN q + Len(close) ELSE 0

RECURSIVE ReFindAll(_, _, _, _, _, _)
\* FindAllStringIndex: the leftmost non-overlapping matches from rune i on, as
\* regions of byte offsets.
ReFindAll(line, lineStart, open, stop, close, i) ==
  LET starts == {j \in i..Len(line) : ReMatchEnd(line, open, stop, close, j) # 0}
  IN IF starts = {} THEN <<>>
     ELSE LET j == CHOOSE j \in starts : \A k \in starts : j <= k
              e == ReMatchEnd(line, open, stop, close, j)
          IN <<Region(lineStart + ByteOffset(line, j),
                      lineStart + ByteOffset(line, e), "hugo_shortcode")>>
             \o ReFindAll(line, lineStart, open, stop, close, e)

findHugoShortcodeRegions(line, lineStart) ==
  ReFindAll(line, lineStart, <<Ch.lbrace, Ch.lbrace, Ch.lt>>, Ch.gt,
            <<Ch.gt, Ch.rbrace, Ch.rbrace>>, 1)
  \o ReFindAll(line, lineStart, <<Ch.lbrace, Ch.lbrace, Ch.pct>>, Ch.pct,
               <<Ch.pct, Ch.rbrace, Ch.rbrace>>, 1)
  \o ReFindAll(line, lineStart, <<Ch.lbrace, Ch.lbrace, Ch.lt, Ch.slash>>, Ch.gt,
               <<Ch.gt, Ch.rbrace, Ch.rbrace>>, 1)
  \o ReFindAll(line, lineStart, <<Ch.lbrace, Ch.lbrace, Ch.pct, Ch.slash>>, Ch.pct,
               <<Ch.pct, Ch.rbrace, Ch.rbrace>>, 1)

\* The scanner's variables before the first line.
ScanInit ==
  [ currentPos |-> 0, inCodeBlock |-> FALSE, inHtmlComment |-> FALSE,
    inHugoShortcode |-> FALSE, codeBlockStart |-> 0, commentStart |-> 0,
    hugoStart |-> 0, regions |-> <<>> ]

\* A closing fence line whose region starts at its own line, not at the opening one.
CodeBlockRegion_FromClosingLine(codeBlockStart, lineStart, lineEnd) ==
  Region(lineStart, lineEnd, "code_block")

\* The region a closing fence line emits: from the opening fence line's start to
\* the closing fence line's end.
CodeBlockRegion(codeBlockStart, lineStart, lineEnd) ==
  Region(codeBlockStart, lineEnd, "code_block")

\* A scanner that goes on to the other detections on every line.
SkipsOtherProcessing_Never(inCodeBlock) == FALSE

\* if inCodeBlock { currentPos += len(line) + 1; continue }, tested after the
\* fence line has toggled the flag.
SkipsOtherProcessing(inCodeBlock) == inCodeBlock

\* One iteration of the scanner's loop over the lines.
ScanLine(st, line) ==
  LET lineStart == st.currentPos
      lineEnd == st.currentPos + ByteLen(line)
      fence == HasPrefix(TrimSpace(line), Fence)
      inCode1 == IF fence THEN ~st.inCodeBlock ELSE st.inCodeBlock
      codeStart1 == IF fence /\ ~st.inCodeBlock THEN lineStart
                    ELSE st.codeBlockStart
      regs1 == IF fence /\ st.inCodeBlock
                 THEN Append(st.regions,
                             CodeBlockRegion(st.codeBlockStart, lineStart, lineEnd))
                 ELSE st.regions
      hugoOpens == (Contains(line, HugoOpen1) \/ Contains(line, HugoOpen2))
                   /\ ~st.inHugoShortcode
      hugoStart1 == IF hugoOpens THEN lineStart ELSE st.hugoStart
      inHugo1 == st.inHugoShortcode \/ hugoOpens
      hugoCloses == (Contains(line, HugoClose1) \/ Contains(line, HugoClose2))
                    /\ inHugo1
      regs2 == IF hugoCloses
                 THEN Append(regs1, Region(hugoStart1, lineEnd, "hugo_shortcode"))
                 ELSE regs1
      inHugo2 == inHugo1 /\ ~hugoCloses
      comOpens == Contains(line, CommentOpen) /\ ~st.inHtmlComment
      commentStart1 == IF comOpens THEN lineStart + Index(line, CommentOpen)
                       ELSE st.commentStart
      inCom1 == st.inHtmlComment \/ comOpens
      comCloses == Contains(line, CommentClose) /\ inCom1
      regs3 == IF comCloses
                 THEN Append(regs2, Region(commentStart1,
                                           lineStart + Index(line, CommentClose) + 3,
                                           "html_comment"))
                 ELSE regs2
      inCom2 == inCom1 /\ ~comCloses
      regs4 == IF inCom2 \/ inHugo2
                 THEN Append(regs3, Region(lineStart, lineEnd,
                                           IF inCom2 THEN "html_comment"
                                           ELSE "hugo_shortcode"))
                 ELSE regs3 \o findInlineCodeRegions(line, lineStart)
                            \o findHugoShortcodeRegions(line, lineStart)
  IN IF SkipsOtherProcessing(inCode1)
       THEN [st EXCEPT !.currentPos = lineEnd + 1, !.inCodeBlock = inCode1,
                       !.codeBlockStart = codeStart1, !.regions = regs1]
       ELSE [ currentPos |-> lineEnd + 1, inCodeBlock |-> inCode1,
              inHtmlComment |-> inCom2, inHugoShortcode |-> inHugo2,
              codeBlockStart |-> codeStart1, commentStart |-> commentStart1,
              hugoStart |-> hugoStart1, regions |-> regs4 ]

RECURSIVE ScanLines(_, _, _)
\* The scanner's state after the lines i..Len(lines), started in st.
ScanLines(st, lines, i) ==
  IF i > Len(lines) THEN st ELSE ScanLines(ScanLine(st, lines[i]), lines, i + 1)

RECURSIVE InsertRegion(_, _)
\* r inserted into the sorted sequence rs after every region whose start is not
\* greater (the insertion sort sort.Slice runs on a short slice).
InsertRegion(rs, r) ==
  IF rs = <<>> THEN <<r>>
  ELSE IF r.start < rs[Len(rs)].start
    THEN Append(InsertRegion(SubSeq(rs, 1, Len(rs) - 1), r), rs[Len(rs)])
    ELSE Append(rs, r)

RECURSIVE SortRegions(_)
\* sort.Slice(regions, regions[i].start < regions[j].start)
SortRegions(rs) ==
  IF rs = <<>> THEN <<>>
  ELSE InsertRegion(SortRegions(SubSeq(rs, 1, Len(rs) - 1)), rs[Len(rs)])

identifyProtectedRegions(content) ==
  SortRegions(ScanLines(ScanInit, Split(content), 1).regions)

\* The orders sort.Slice may leave the regions rs in: it is not a stable sort, so
\* regions with equal start may come out in any relative order.
SortedOrders(rs) ==
  LET n == Len(rs)
      perms == {f \in [1..n -> 1..n] : \A i, j \in 1..n : i # j => f[i] # f[j]}
  IN { [i \in 1..n |-> rs[f[i]]] :
         f \in {g \in perms :
                  \A i \in 1..(n - 1) : rs[g[i]].start <= rs[g[i + 1]].start} }

(***************************************************************************)
(* The line protection test shared by the three rules.                     *)
(***************************************************************************)
RECURSIVE LineStartOf(_, _)
\* The byte offset of the line of 1-based index k: every line before it counts
\* its bytes and one newline.
LineStartOf(lines, k) ==
  IF k <= 1 THEN 0 ELSE LineStartOf(lines, k - 1) + ByteLen(lines[k - 1]) + 1

\* The test made on one region only: the first of the list that starts at or
\* before the line.
LineProtected_FirstRegionOnly(lineStart, lineEnd, protectedRegions) ==
  LET before == {i \in 1..Len(protectedRegions) :
                   protectedRegions[i].start <= lineStart}
  IN before # {} /\
       LET i == CHOOSE i \in before : \A j \in before : i <= j
       IN lineEnd <= protectedRegions[i].end

\* lineStart >= region.start && lineEnd <= region.end, for some region.
LineProtected(lineStart, lineEnd, protectedRegions) ==
  \E i \in 1..Len(protectedRegions) :
    lineStart >= protectedRegions[i].start /\ lineEnd <= protectedRegions[i].end

\* The test passed by a line that a region overlaps, if only in part.
LineProtectedAt_Overlap(lines, k, protectedRegions) ==
  \E i \in 1..Len(protectedRegions) :
    /\ protectedRegions[i].start < LineStartOf(lines, k) + ByteLen(lines[k])
    /\ protectedRegions[i].end > LineStartOf(lines, k)

\* The test on the line of 1-based index k of lines.
LineProtectedAt(lines, k, protectedRegions) ==
  LineProtected(LineStartOf(lines, k), LineStartOf(lines, k) + ByteLen(lines[k]),
                protectedRegions)

\* changeInfo
Change(lineNo, rule, description, before, after) ==
  [line |-> lineNo, rule |-> rule, description |-> description,
   before |-> before, after |-> after]

RECURSIVE LineChanges(_, _, _, _, _)
\* The change records of a rule that rewrites lines in place: one for each line
\* that differs, in ascending line order, from line k on.
LineChanges(old, new, rule, description, k) ==
  IF k > Len(old) THEN <<>>
  ELSE (IF new[k] # old[k]
          THEN <<Change(k, rule, description, old[k], new[k])>>
          ELSE <<>>)
       \o LineChanges(old, new, rule, description, k + 1)

(***************************************************************************)
(* applySpacingRuleWithProtection                                          *)
(***************************************************************************)
\* The patterns with an optional space between the two classes: a space is added
\* after the first rune even when one follows it already.
SpacingMatch_OptionalSpace(line, i, hanLeft) ==
  LET j == IF i + 1 < Len(line) /\ line[i + 1] = Ch.sp THEN i + 2 ELSE i + 1
  IN /\ j <= Len(line)
     /\ IF hanLeft THEN IsHanPat(line[i]) /\ IsAlnum(line[j])
        ELSE IsAlnum(line[i]) /\ IsHanPat(line[j])

\* Whether one spacing pattern matches the runes i, i+1 of line. hanLeft chooses
\* the pattern: ([han])([alnum]) or ([alnum])([han]).
SpacingMatch(line, i, hanLeft) ==
  /\ i < Len(line)
  /\ IF hanLeft THEN IsHanPat(line[i]) /\ IsAlnum(line[i + 1])
     ELSE IsAlnum(line[i]) /\ IsHanPat(line[i + 1])

RECURSIVE SpaceRange(_, _, _, _)
\* ReplaceAllString of one spacing pattern with "$1 $2", on the runes lo..hi of
\* line (by halves): a space goes between every pair the pattern matches. Two
\* matches never overlap, since no rune is in both classes.
SpaceRange(line, lo, hi, hanLeft) ==
  IF lo > hi THEN <<>>
  ELSE IF lo = hi
    THEN IF SpacingMatch(line, lo, hanLeft) THEN <<line[lo], Ch.sp>>
         ELSE <<line[lo]>>
  ELSE SpaceRange(line, lo, (lo + hi) \div 2, hanLeft)
       \o SpaceRange(line, ((lo + hi) \div 2) + 1, hi, hanLeft)

ReplaceSpacing(line, hanLeft) == SpaceRange(line, 1, Len(line), hanLeft)

\* The two patterns applied in turn to one unprotected line.
SpaceLine(line) == ReplaceSpacing(ReplaceSpacing(line, TRUE), FALSE)

applySpacingRuleWithProtection(content, protectedRegions) ==
  LET lines == Split(content)
      new == [k \in 1..Len(lines) |->
                IF LineProtectedAt(lines, k, protectedRegions) THEN lines[k]
                ELSE SpaceLine(lines[k])]
  IN [ text |-> Join(new),
       changes |-> LineChanges(lines, new, "spacing",
                               "Added space between Chinese and English text", 1),
       panic |-> FALSE ]

(***************************************************************************)
(* applyPunctuationRuleWithProtection                                      *)
(***************************************************************************)
\* punctuationMap
punctuationMap ==
  (Ch.comma :> Ch.fcomma) @@ (Ch.semi :> Ch.fsemi) @@ (Ch.colon :> Ch.fcolon)
  @@ (Ch.bang :> Ch.fbang) @@ (Ch.quest :> Ch.fquest)

\* The keys of punctuationMap in the order of the map literal, which is the order
\* of their slots in the map's single bucket.
HalfWidthMarks == <<Ch.comma, Ch.semi, Ch.colon, Ch.bang, Ch.quest>>

\* The orders in which a range over punctuationMap may visit its keys: the
\* runtime starts at a random slot of the bucket and wraps around.
MarkOrders ==
  { [i \in 1..Len(HalfWidthMarks) |->
       HalfWidthMarks[((i + off - 1) % Len(HalfWidthMarks)) + 1]] :
    off \in 0..(Len(HalfWidthMarks) - 1) }

\* regexp [U+4E00-U+9FAF] MatchString
HasHan(s) == \E i \in 1..Len(s) : IsHanPat(s[i])

\* regexp \d+:\d+ MatchString
HasTime(s) ==
  \E i \in 1..(Len(s) - 2) :
    IsDigit(s[i]) /\ s[i + 1] = Ch.colon /\ IsDigit(s[i + 2])

\* Whether the rune c is in the class cls: "s" for \s, "w" for \w, "d" for \d.
InClass(c, cls) ==
  IF cls = "s" THEN IsReSpace(c) ELSE IF cls = "w" THEN IsWord(c) ELSE IsDigit(c)

\* The number of runes of s, from index i on, before the first that is not in the
\* class: what a greedy cls* takes.
RunLen(s, i, cls) ==
  LET out == {j \in i..Len(s) : ~InClass(s[j], cls)}
  IN IF out = {} THEN IF i > Len(s) THEN 0 ELSE Len(s) - i + 1
     ELSE (CHOOSE j \in out : \A k \in out : j <= k) - i

\* regexp ^\s*\w+:\s MatchString
HasYamlKey(s) ==
  LET k == RunLen(s, 1, "s")
      m == RunLen(s, k + 1, "w")
  IN /\ m >= 1
     /\ k + m + 2 <= Len(s)
     /\ s[k + m + 1] = Ch.colon
     /\ IsReSpace(s[k + m + 2])

\* The colon left alone on a line that looks like a time or YAML only.
ColonExcluded_NoUrl(line) == HasTime(line) \/ HasYamlKey(line)

\* The colon is left alone on a line that looks like a URL, a time or YAML.
ColonExcluded(line) ==
  \/ Contains(line, <<Ch.colon, Ch.slash, Ch.slash>>)
  \/ HasTime(line)
  \/ HasYamlKey(line)

\* The exclamation mark is left alone on a line with markdown syntax around it.
BangExcluded(line) ==
  \/ Contains(line, <<Ch.bang, Ch.lbrk>>)
  \/ Contains(line, CommentOpen)
  \/ Contains(line, <<Ch.tick, Ch.bang>>)
  \/ Contains(line, <<Ch.bang, Ch.tick>>)
  \/ Contains(line, <<Ch.flpar, Ch.tick, Ch.fbang, Ch.tick, Ch.frpar>>)
  \/ Contains(line, <<Ch.lpar, Ch.tick, Ch.bang, Ch.tick, Ch.rpar>>)

\* Skip YAML frontmatter lines.
IsFrontMatter(line) ==
  LET trimmed == TrimSpace(line)
  IN \/ HasPrefix(trimmed, <<Ch.dash, Ch.dash, Ch.dash>>)
     \/ (Contains(trimmed, <<Ch.colon, Ch.sp>>) /\ ~HasHan(trimmed))

RECURSIVE ConvertMarks(_, _, _)
\* The loop over punctuationMap, visiting the marks order[i..]: each exclusion is
\* tested on the line as the marks visited before have left it.
ConvertMarks(line, order, i) ==
  IF i > Len(order) THEN line
  ELSE LET halfWidth == order[i]
           skip == \/ (halfWidth = Ch.colon /\ ColonExcluded(line))
                   \/ (halfWidth = Ch.bang /\ BangExcluded(line))
       IN ConvertMarks(IF skip THEN line
                       ELSE ReplaceAll(line, halfWidth, punctuationMap[halfWidth]),
                       order, i + 1)

\* What the rule makes of one unprotected line.
PunctLine(line, order) ==
  IF IsFrontMatter(line) THEN line
  ELSE IF HasHan(line) THEN ConvertMarks(line, order, 1)
  ELSE line

applyPunctuationRuleWithProtection(content, protectedRegions, order) ==
  LET lines == Split(content)
      new == [k \in 1..Len(lines) |->
                IF LineProtectedAt(lines, k, protectedRegions) THEN lines[k]
                ELSE PunctLine(lines[k], order)]
  IN [ text |-> Join(new),
       changes |-> LineChanges(lines, new, "punctuation",
                               "Converted half-width to full-width punctuation", 1),
       panic |-> FALSE ]

(***************************************************************************)
(* The line breaker: findBestBreakPoint, getIndentation, smartLineBreak.   *)
(***************************************************************************)
maxLineLength == 120
preferredLineLength == 80

\* The greatest element of a non-empty set of integers.
MaxOf(S) == CHOOSE m \in S : \A n \in S : n <= m

\* The result of a function that can panic on an index out of range.
Ok(v) == [panic |-> FALSE, val |-> v]
Panic == [panic |-> TRUE, val |-> 0]

\* A break point search whose window for a space reaches up to maxLength.
findBestBreakPoint_SpaceToMax(line, preferredLength, maxLength) ==
  LET spaces == {i \in (preferredLength \div 2)..maxLength :
                   i < Len(line) /\ line[i + 1] = Ch.sp}
  IN IF Len(line) = 0 THEN Panic
     ELSE IF spaces # {} THEN Ok(MaxOf(spaces) + 1)
     ELSE IF Len(line) > maxLength THEN Ok(preferredLength)
     ELSE Ok(-1)

\* findBestBreakPoint: a 0-based rune index, -1 for no break point. The loops
\* run i from searchEnd down to searchStart; the first two read runes[i] and the
\* third lineBytes[i], which panics when the line is empty and i is -1.
findBestBreakPoint(line, preferredLength, maxLength) ==
  LET lineLength == Len(line)
      searchEnd == IF preferredLength >= lineLength THEN lineLength - 1
                   ELSE preferredLength
      searchStart == IF preferredLength \div 2 >= lineLength THEN lineLength - 1
                     ELSE preferredLength \div 2
      window == {i \in searchStart..searchEnd : i < lineLength}
      sentence == {i \in window : line[i + 1] \in {Ch.fstop, Ch.fbang, Ch.fquest}}
      clause == {i \in window : line[i + 1] \in {Ch.fcomma, Ch.fsemi, Ch.fcolon}}
      lineBytes == Bytes(line)
      nBytes == Len(lineBytes)
      searchEndBytes == IF preferredLength >= nBytes THEN nBytes - 1
                        ELSE preferredLength
      searchStartBytes == IF preferredLength \div 2 >= nBytes THEN nBytes - 1
                          ELSE preferredLength \div 2
      spaces == {i \in searchStartBytes..searchEndBytes :
                   i < nBytes /\ lineBytes[i + 1] = Ch.sp}
      \* the fourth loop stops as soon as i < lineLength-1 fails, which is at
      \* once when searchEnd is the last index
      transitions == IF searchEnd < lineLength - 1
                       THEN {i \in searchStart..searchEnd :
                               isChinese(line[i + 1]) # isChinese(line[i + 2])}
                       ELSE {}
  IN IF \E i \in window : i < 0 THEN Panic
     ELSE IF sentence # {} THEN Ok(MaxOf(sentence) + 1)
     ELSE IF clause # {} THEN Ok(MaxOf(clause) + 1)
     ELSE IF spaces # {} THEN Ok(MaxOf(spaces) + 1)
     ELSE IF transitions # {} THEN Ok(MaxOf(transitions) + 1)
     ELSE IF lineLength > maxLength
       THEN IF preferredLength < lineLength THEN Ok(preferredLength)
            ELSE Ok(lineLength \div 2)
     ELSE Ok(-1)

\* getIndentation: the leading spaces and tabs; the whole line if it has nothing else.
getIndentation(line) ==
  IF \A i \in 1..Len(line) : line[i] \in {Ch.sp, Ch.tab} THEN line
  ELSE LET i == CHOOSE i \in 1..Len(line) :
                  /\ line[i] \notin {Ch.sp, Ch.tab}
                  /\ \A j \in 1..(i - 1) : line[j] \in {Ch.sp, Ch.tab}
       IN SubSeq(line, 1, i - 1)

\* regexp ^\s*\d+\.\s MatchString
HasOrderedMarker(s) ==
  LET k == RunLen(s, 1, "s")
      m == RunLen(s, k + 1, "d")
  IN /\ m >= 1
     /\ k + m + 2 <= Len(s)
     /\ s[k + m + 1] = Ch.dot
     /\ IsReSpace(s[k + m + 2])

\* The test smartLineBreak makes on the original line for list indentation.
IsListItem(line) ==
  \/ Contains(line, <<Ch.dash, Ch.sp>>)
  \/ Contains(line, <<Ch.star, Ch.sp>>)
  \/ HasOrderedMarker(line)

\* The indentation smartLineBreak gives a segment that is not the first.
Continuation(line, segment) ==
  IF IsListItem(line)
    THEN getIndentation(line) \o <<Ch.sp, Ch.sp>> \o TrimSpace(segment)
  ELSE IF getIndentation(line) # <<>>
    THEN getIndentation(line) \o TrimSpace(segment)
  ELSE segment

\* The statements after the loop of smartLineBreak: the remaining part is added
\* when it is not empty.
BreakTail(line, result, remaining) ==
  IF remaining # <<>>
    THEN Append(result, IF Len(result) > 0 THEN Continuation(line, remaining)
                        ELSE remaining)
    ELSE result

RECURSIVE BreakLoop(_, _, _, _, _, _)
\* The loop of smartLineBreak and what follows it.
BreakLoop(line, maxLength, preferredLength, result, remaining, remainingRunes) ==
  IF Len(remainingRunes) <= preferredLength
    THEN Ok(BreakTail(line, result, remaining))
  ELSE LET bp == findBestBreakPoint(remaining, preferredLength, maxLength)
       IN IF bp.panic THEN Panic
          ELSE IF bp.val = -1
            \* can't find a good break point: the line is kept, the loop left
            THEN Ok(BreakTail(line, Append(result, remaining), remaining))
          ELSE LET segment == TrimSpace(RunesTo(remainingRunes, bp.val))
                   rest == RunesFrom(remainingRunes, bp.val)
               IN BreakLoop(line, maxLength, preferredLength,
                            Append(result, IF Len(result) > 0
                                             THEN Continuation(line, segment)
                                             ELSE segment),
                            TrimSpace(rest), rest)

\* The line breaker with the preferred length as the threshold of its first test.
smartLineBreak_AbovePreferred(line, maxLength, preferredLength) ==
  IF Len(line) <= preferredLength THEN Ok(<<line>>)
  ELSE BreakLoop(line, maxLength, preferredLength, <<>>, line, line)

smartLineBreak(line, maxLength, preferredLength) ==
  IF Len(line) <= maxLength THEN Ok(<<line>>)
  ELSE BreakLoop(line, maxLength, preferredLength, <<>>, line, line)

(***************************************************************************)
(* applyLineBreakRuleWithProtection                                        *)
(***************************************************************************)
\* The skip tests without the one for markdown links.
shouldSkipLineBreaking_NoLinkTest(line) ==
  LET trimmed == TrimSpace(line)
  IN \/ trimmed = <<>>
     \/ HasPrefix(trimmed, Fence)
     \/ Count(line, Ch.tick) >= 2
     \/ Contains(line, <<Ch.h, Ch.t, Ch.t, Ch.p, Ch.colon, Ch.slash, Ch.slash>>)
     \/ Contains(line, <<Ch.h, Ch.t, Ch.t, Ch.p, Ch.s, Ch.colon, Ch.slash, Ch.slash>>)
     \/ HasPrefix(trimmed, <<Ch.dash, Ch.dash, Ch.dash>>)
     \/ (/\ Contains(trimmed, <<Ch.colon, Ch.sp>>)
         /\ ~Contains(trimmed, <<Ch.fstop>>)
         /\ ~Contains(trimmed, <<Ch.fcomma>>))
     \/ (HasPrefix(trimmed, <<Ch.bar>>) /\ HasSuffix(trimmed, <<Ch.bar>>))
     \/ HasPrefix(trimmed, <<Ch.hash>>)

shouldSkipLineBreaking(line) ==
  LET trimmed == TrimSpace(line)
  IN \/ trimmed = <<>>
     \/ HasPrefix(trimmed, Fence)
     \/ Count(line, Ch.tick) >= 2
     \/ Contains(line, <<Ch.h, Ch.t, Ch.t, Ch.p, Ch.colon, Ch.slash, Ch.slash>>)
     \/ Contains(line, <<Ch.h, Ch.t, Ch.t, Ch.p, Ch.s, Ch.colon, Ch.slash, Ch.slash>>)
     \/ (Contains(line, <<Ch.rbrk, Ch.lpar>>)
         /\ Count(line, Ch.lbrk) = Count(line, Ch.rbrk))
     \/ HasPrefix(trimmed, <<Ch.dash, Ch.dash, Ch.dash>>)
     \/ (/\ Contains(trimmed, <<Ch.colon, Ch.sp>>)
         /\ ~Contains(trimmed, <<Ch.fstop>>)
         /\ ~Contains(trimmed, <<Ch.fcomma>>))
     \/ (HasPrefix(trimmed, <<Ch.bar>>) /\ HasSuffix(trimmed, <<Ch.bar>>))
     \/ HasPrefix(trimmed, <<Ch.hash>>)

\* What the rule does with the line of 1-based index k of lines: nothing, or the
\* segments that replace it.
BreakLineAt(lines, k, protectedRegions) ==
  IF \/ LineProtectedAt(lines, k, protectedRegions)
     \/ shouldSkipLineBreaking(lines[k])
     \/ Len(lines[k]) <= preferredLineLength
    THEN Ok(<<lines[k]>>)
    ELSE smartLineBreak(lines[k], maxLineLength, preferredLineLength)

\* A replacement that keeps the first segment in the place of the line and puts
\* the others at the end of the text.
ReplaceLine_AtEnd(lines, k, brokenLines) ==
  SubSeq(lines, 1, k - 1) \o <<brokenLines[1]>> \o SubSeq(lines, k + 1, Len(lines))
    \o SubSeq(brokenLines, 2, Len(brokenLines))

\* lines[lineNum] = brokenLines[0], then the other segments inserted after it,
\* the last one first.
ReplaceLine(lines, k, brokenLines) ==
  SubSeq(lines, 1, k - 1) \o brokenLines \o SubSeq(lines, k + 1, Len(lines))

RECURSIVE BreakLinesFrom(_, _, _, _)
\* The loop of the rule, from the line of 1-based index k down to the first. A
\* line that is split is replaced in place by its segments, and one change is
\* recorded for it.
BreakLinesFrom(lines, k, changes, protectedRegions) ==
  IF k < 1 THEN [text |-> Join(lines), changes |-> changes, panic |-> FALSE]
  ELSE LET brokenLines == BreakLineAt(lines, k, protectedRegions)
       IN IF brokenLines.panic
            THEN [text |-> Join(lines), changes |-> changes, panic |-> TRUE]
          ELSE IF Len(brokenLines.val) > 1
            THEN BreakLinesFrom(
                   ReplaceLine(lines, k, brokenLines.val),
                   k - 1,
                   Append(changes,
                          Change(k, "linebreaks",
                                 <<"Broke long line", Len(lines[k]),
                                   Len(brokenLines.val)>>,
                                 lines[k], Join(brokenLines.val))),
                   protectedRegions)
          ELSE BreakLinesFrom(lines, k - 1, changes, protectedRegions)

applyLineBreakRuleWithProtection(content, protectedRegions) ==
  BreakLinesFrom(Split(content), Len(Split(content)), <<>>, protectedRegions)

(***************************************************************************)
(* The documents and rule selections the model runs the formatter on.      *)
(***************************************************************************)
MaxLines == 2
MaxPairs == 5
MaxPasses == 2
Slack == 1

\* Short lines: CJK/ASCII adjacencies, ASCII marks, inline code, markers.
ShortLines ==
  { <<Ch.zh, Ch.a>>,
    <<Ch.zh, Ch.sp, Ch.a>>,
    <<Ch.a, Ch.zh, Ch.comma, Ch.b>>,
    <<Ch.x, Ch.sp, Ch.tick, Ch.zh, Ch.a, Ch.tick>>,
    <<Ch.hanExt, Ch.a, Ch.comma>>,
    <<Ch.zh, Ch.colon, Ch.bang, Ch.quest>>,
    Fence,
    CommentOpen }

\* Every document of at most MaxLines short lines.
ShortDocs == UNION {[1..n -> ShortLines] : n \in 1..MaxLines}

\* A line with 2k-1 CJK/ASCII boundaries.
ShiftLine(k) == Rep(<<Ch.zh, Ch.a>>, k)

\* A line of more than maxLineLength runes with adjacencies, ASCII marks and spaces.
LongMixed ==
  Rep(<<Ch.zh, Ch.a, Ch.comma, Ch.sp>>, (maxLineLength \div 4) + 1)

\* Lines a fenced code block holds.
BodyLines == { <<Ch.zh, Ch.comma, Ch.b>>, LongMixed }

\* A fenced code block, closed or not, after at most two lines of prose.
FencedDocs ==
  { pre \o mid \o <<Fence>> \o body \o close :
      pre \in {<<>>} \cup {<<ShiftLine(k)>> : k \in 1..MaxPairs},
      mid \in {<<>>, <<<<Ch.zh, Ch.comma>>>>},
      body \in {<<>>} \cup {<<l>> : l \in BodyLines},
      close \in {<<>>, <<Fence>>} }

\* One long line: a run of n1 letters, n2 spaces, n3 letters.
Runs(n1, n2, n3) == Rep(<<Ch.x>>, n1) \o Rep(<<Ch.sp>>, n2) \o Rep(<<Ch.x>>, n3)

LongDocs ==
  { <<Runs(n1, n2, n3)>> :
      n1 \in {1, preferredLineLength + 15 - 1},
      n2 \in {1, preferredLineLength * 2 + Slack},
      n3 \in {0, maxLineLength - preferredLineLength - Slack,
              maxLineLength + preferredLineLength} }

\* Lines with the marks and the shapes the punctuation rule's exclusions test:
\* no CJK, a time, a URL with a port, a leading key, a markdown image, a
\* backtick next to an exclamation mark on either side, an HTML comment closed
\* on its line.
MarkLines ==
  { <<Ch.a, Ch.comma, Ch.b>>,
    <<Ch.zh, Ch.semi, Ch.d1, Ch.colon, Ch.d1>>,
    <<Ch.zh, Ch.sp, Ch.h, Ch.t, Ch.t, Ch.p, Ch.s, Ch.colon, Ch.slash, Ch.slash,
      Ch.a, Ch.colon, Ch.d1, Ch.comma>>,
    <<Ch.a, Ch.colon, Ch.sp, Ch.zh, Ch.colon, Ch.comma>>,
    <<Ch.zh, Ch.bang, Ch.lbrk, Ch.bang, Ch.comma>>,
    <<Ch.zh, Ch.tick, Ch.bang, Ch.bang, Ch.comma>>,
    <<Ch.zh, Ch.quest, Ch.bang, Ch.tick, Ch.bang>>,
    <<Ch.zh, Ch.bang, Ch.comma>> \o CommentOpen \o CommentClose,
    <<Ch.zh, Ch.d1, Ch.colon, Ch.d1, Ch.bang, Ch.lbrk, Ch.semi, Ch.colon, Ch.bang>>,
    <<Ch.zh, Ch.flpar, Ch.tick, Ch.fbang, Ch.tick, Ch.frpar, Ch.bang, Ch.colon>> }

\* A line of words, longer than maxLineLength, after the given head.
Words(head) == head \o Rep(<<Ch.x, Ch.sp>>, maxLineLength \div 2)

\* A complete markdown link [x](x).
Link == <<Ch.lbrk, Ch.x, Ch.rbrk, Ch.lpar, Ch.x, Ch.rpar>>

\* Long lines with a link, a link and one more bracket, a bare URL.
LinkLines ==
  { Words(Link \o <<Ch.sp>>),
    Words(Link \o <<Ch.sp, Ch.lbrk, Ch.sp>>),
    Words(<<Ch.h, Ch.t, Ch.t, Ch.p, Ch.colon, Ch.slash, Ch.slash, Ch.x, Ch.sp>>) }

\* A line of n letters whose only space is the rune of 0-based index at.
OneSpace(n, at) == Runs(at, 1, n - at - 1)

\* Lines of maxLineLength + 10 runes with one space past the preferred length,
\* and a line of letters indented by more than maxLineLength - preferredLineLength.
BreakLines ==
  { OneSpace(maxLineLength + 10, preferredLineLength + 14),
    OneSpace(maxLineLength + 10, preferredLineLength + 15),
    Rep(<<Ch.sp>>, maxLineLength - preferredLineLength + Slack)
      \o Rep(<<Ch.x>>, maxLineLength + Slack) }

\* Texts whose regions share a start or cover a line only together: a comment
\* opened at the start of line 1 and closed on line 2, with marks on line 3, two inline code spans
\* side by side, a shortcode that two of the patterns match.
RegionDocs ==
  { <<CommentOpen, <<Ch.zh, Ch.a>> \o CommentClose,
      <<Ch.zh, Ch.comma, Ch.semi, Ch.colon>>>>,
    << <<Ch.tick, Ch.a, Ch.zh, Ch.tick, Ch.tick, Ch.zh, Ch.a, Ch.tick>> >>,
    << <<Ch.lbrace, Ch.lbrace, Ch.lt, Ch.slash, Ch.x, Ch.gt, Ch.rbrace, Ch.rbrace,
         Ch.zh, Ch.a>> >> }

\* Texts with spans of more than one line and markers in unusual places: a
\* comment and a comment-style shortcode closed on a line that goes on after the
\* closing marker, a closing marker before the opening one on the same line, a
\* closing fence line that goes on with an opening comment marker.
SpanDocs ==
  { <<CommentOpen, CommentClose \o <<Ch.zh, Ch.a>> >>,
    << <<Ch.x>> \o HugoOpen1, <<Ch.zh, Ch.a>>, HugoClose1 \o <<Ch.zh, Ch.a>> >>,
    << CommentClose \o <<Ch.a>> \o CommentOpen, <<Ch.zh, Ch.a>> >>,
    << Fence, Fence \o CommentOpen, <<Ch.zh, Ch.a>> >> }

\* A line of letters with the given runes at the given 0-based indexes.
Letters(n, at) == [i \in 1..n |-> IF (i - 1) \in DOMAIN at THEN at[i - 1] ELSE Ch.x]

\* Lines of maxLineLength + 10 runes with candidates of several kinds inside
\* the window of the break point search: a sentence terminator below a clause
\* mark and a space, a clause mark below a space, a space below a transition,
\* two transitions; a line whose space comes after multi-byte runes; a line whose
\* tail after the first break has preferredLineLength + 1 runes and a
\* transition; an indented line whose tail has no break point.
PriorityLines ==
  { Letters(maxLineLength + 10,
            (45 :> Ch.fstop) @@ (60 :> Ch.fcomma) @@ (70 :> Ch.sp)),
    Letters(maxLineLength + 10, (50 :> Ch.fsemi) @@ (70 :> Ch.sp) @@ (75 :> Ch.zh)),
    Letters(maxLineLength + 10, (50 :> Ch.sp) @@ (70 :> Ch.zh)),
    Letters(maxLineLength + 10, (60 :> Ch.zh) @@ (70 :> Ch.zh)),
    Rep(<<Ch.zh>>, 10) \o Runs(preferredLineLength \div 2, 1, preferredLineLength),
    Rep(<<Ch.x>>, preferredLineLength) \o Rep(<<Ch.zh>>, 51) \o Rep(<<Ch.a>>, 30),
    <<Ch.sp, Ch.sp>> \o Runs(preferredLineLength - 2, 1, maxLineLength - 20) }

\* A text of three lines, the first and the last of which are split.
BreakDocs ==
  { << OneSpace(maxLineLength + 10, 60), <<Ch.zh, Ch.a>>,
       <<Ch.sp>> \o OneSpace(maxLineLength + 10, 70) >> }

Documents ==
  ShortDocs \cup FencedDocs \cup LongDocs \cup RegionDocs \cup SpanDocs \cup BreakDocs
  \cup {<<l>> : l \in MarkLines \cup LinkLines \cup BreakLines \cup PriorityLines}

\* The texts: the lines of a document joined by newlines.
Inputs == {Join(d) : d \in Documents}

RuleNames == {"spacing", "punctuation", "linebreaks"}

\* What --rules may hold: nothing, rules in any order, a name with no case.
RuleSelections ==
  { <<>>,
    <<"spacing">>, <<"punctuation">>, <<"linebreaks">>,
    <<"spacing", "punctuation">>, <<"punctuation", "spacing">>,
    <<"spacing", "punctuation", "linebreaks">>,
    <<"linebreaks", "punctuation", "spacing">>,
    <<"anchors", "spacing">> }

(***************************************************************************)
(* applyFormattingRules as a state machine: the regions are identified     *)
(* once, then the rules are applied one by one in the order of the list.   *)
(***************************************************************************)
VARIABLES
  content,           \* the text the formatter was called on
  selection,         \* the rules the caller passed
  rules,             \* the rules the loop ranges over
  pc,                \* "start", "rules", "done", "panic"
  idx,               \* the 1-based index of the next rule of the loop
  scan,              \* the scanner's variables after its last line
  protectedRegions,  \* the regions, sorted by start
  modified,          \* the text as the rules applied so far have left it
  changes,           \* the change records so far
  executed,          \* the rules applied so far, in order
  pass,              \* how many times the formatter has been run
  firstInput,        \* the text of the first run
  options,           \* formatOptions: apply, backup, rules
  files,             \* the markdown files processFiles collected
  disk,              \* the content of each file and of its .backup file
  fileIdx,           \* the 1-based index of the next file of the loop of processFiles
  results,           \* the formatResult of each file processed so far
  stdout,            \* the lines printed so far
  writes,            \* the calls of os.WriteFile so far
  pending,           \* processFile: the result and the text before the write-back
  bpc                \* "idle", "loop", "formatted", "displayed", "panic"

\* The variables of applyFormattingRules and those of processFiles.
fmtVars == <<content, selection, rules, pc, idx, scan, protectedRegions, modified,
             changes, executed, pass, firstInput>>
batchVars == <<options, files, disk, fileIdx, results, stdout, writes, pending, bpc>>

vars == <<content, selection, rules, pc, idx, scan, protectedRegions, modified,
          changes, executed, pass, firstInput,
          options, files, disk, fileIdx, results, stdout, writes, pending, bpc>>

\* processFile is not between formatting and write-back.
NoPending ==
  [result |-> [filePath |-> 0, changes |-> <<>>, hasChanges |-> FALSE,
               errors |-> <<>>],
   modifiedContent |-> <<>>]

\* No command is running: nothing collected, nothing printed, nothing written.
BatchIdle ==
  /\ options = [apply |-> FALSE, backup |-> FALSE, rules |-> <<>>]
  /\ files = <<>>
  /\ disk = [file |-> <<>>, backup |-> <<>>]
  /\ fileIdx = 1
  /\ results = <<>>
  /\ stdout = <<>>
  /\ writes = <<>>
  /\ pending = NoPending
  /\ bpc = "idle"

Init ==
  /\ content \in Inputs
  /\ selection \in RuleSelections
  /\ rules = selection
  /\ pc = "start"
  /\ idx = 1
  /\ scan = ScanInit
  /\ protectedRegions = <<>>
  /\ modified = content
  /\ changes = <<>>
  /\ executed = <<>>
  /\ pass = 1
  /\ firstInput = content
  /\ BatchIdle

\* The rules of the loop with no default: an empty selection runs no rule.
EffectiveRules_NoDefault(sel) == sel

\* The rules of the selection in the order spacing, punctuation, linebreaks.
EffectiveRules_Canonical(sel) ==
  LET all == <<"spacing", "punctuation", "linebreaks">>
  IN IF Len(sel) = 0 THEN all
     ELSE SelectSeq(all, LAMBDA r : \E i \in 1..Len(sel) : sel[i] = r)

\* The rules the loop ranges over: the default when none is specified.
EffectiveRules(sel) ==
  IF Len(sel) = 0 THEN <<"spacing", "punctuation", "linebreaks">> ELSE sel

\* The body of the switch for one rule name; a name with no case does nothing.
RuleResult(rule, text, regions, order) ==
  IF rule = "spacing" THEN applySpacingRuleWithProtection(text, regions)
  ELSE IF rule = "punctuation"
    THEN applyPunctuationRuleWithProtection(text, regions, order)
  ELSE IF rule = "linebreaks" THEN applyLineBreakRuleWithProtection(text, regions)
  ELSE [text |-> text, changes |-> <<>>, panic |-> FALSE]

RECURSIVE RunRules(_, _, _, _, _)
\* The loop over the rules list[i..], from the text and changes acc holds.
\* (Each rule's result is a value before the next rule reads it.)
RunRules(acc, list, i, regions, order) ==
  IF i > Len(list) \/ acc.panic THEN acc
  ELSE CHOOSE out \in
         { RunRules([text |-> r.text, changes |-> acc.changes \o r.changes,
                     panic |-> r.panic],
                    list, i + 1, regions, order) :
             r \in {RuleResult(list[i], acc.text, regions, order)} } : TRUE

\* applyFormattingRules as a function of the text and the rules, for one order
\* of the marks and one order of the regions.
applyFormattingRules(text, list, order, regions) ==
  RunRules([text |-> text, changes |-> <<>>, panic |-> FALSE],
           EffectiveRules(list), 1, regions, order)

\* The head of applyFormattingRules: default rules, then the regions of content.
IdentifyRegions ==
  /\ pc = "start"
  /\ rules' = EffectiveRules(selection)
  /\ scan' = ScanLines(ScanInit, Split(content), 1)
  /\ protectedRegions' \in SortedOrders(ScanLines(ScanInit, Split(content), 1).regions)
  /\ pc' = "rules"
  /\ idx' = 1
  /\ UNCHANGED <<content, selection, modified, changes, executed, pass, firstInput>>
  /\ UNCHANGED batchVars

\* The body of one case of the switch: the rule's text and changes are taken.
Applied(rule, r) ==
  /\ modified' = r.text
  /\ changes' = changes \o r.changes
  /\ executed' = Append(executed, rule)
  /\ pc' = IF r.panic THEN "panic" ELSE "rules"
  /\ idx' = idx + 1
  /\ UNCHANGED <<content, selection, rules, scan, protectedRegions, pass, firstInput>>
  /\ UNCHANGED batchVars

AtRule(rule) == pc = "rules" /\ idx <= Len(rules) /\ rules[idx] = rule

ApplySpacing ==
  /\ AtRule("spacing")
  /\ Applied("spacing", applySpacingRuleWithProtection(modified, protectedRegions))

ApplyPunctuation ==
  /\ AtRule("punctuation")
  /\ \E order \in MarkOrders :
       Applied("punctuation",
               applyPunctuationRuleWithProtection(modified, protectedRegions, order))

ApplyLineBreak ==
  /\ AtRule("linebreaks")
  /\ Applied("linebreaks", applyLineBreakRuleWithProtection(modified, protectedRegions))

\* A name the switch has no case for: nothing is done.
SkipRule ==
  /\ pc = "rules" /\ idx <= Len(rules) /\ rules[idx] \notin RuleNames
  /\ idx' = idx + 1
  /\ UNCHANGED <<content, selection, rules, pc, scan, protectedRegions, modified,
                 changes, executed, pass, firstInput>>
  /\ UNCHANGED batchVars

\* return modified, changes
Return ==
  /\ pc = "rules" /\ idx > Len(rules)
  /\ pc' = "done"
  /\ UNCHANGED <<content, selection, rules, idx, scan, protectedRegions, modified,
                 changes, executed, pass, firstInput>>
  /\ UNCHANGED batchVars

\* The formatter is run again, with the same rules, on the text it returned.
RunAgain ==
  /\ pc = "done" /\ pass < MaxPasses
  /\ content' = modified
  /\ rules' = selection
  /\ pc' = "start"
  /\ idx' = 1
  /\ scan' = ScanInit
  /\ protectedRegions' = <<>>
  /\ changes' = <<>>
  /\ executed' = <<>>
  /\ pass' = pass + 1
  /\ UNCHANGED <<selection, modified, firstInput>>
  /\ UNCHANGED batchVars

Next ==
  \/ IdentifyRegions
  \/ ApplySpacing
  \/ ApplyPunctuation
  \/ ApplyLineBreak
  \/ SkipRule
  \/ Return
  \/ RunAgain

Spec == Init /\ [][Next]_vars

(***************************************************************************)
(* processFiles: each collected file is read, formatted and, with --apply, *)
(* written back; then the results are displayed.                           *)
(***************************************************************************)
MaxFiles == 2

\* The texts of the files: two that the rules change, one that they leave, and a
\* line on which the line breaker panics.
BatchTexts ==
  { <<Ch.zh, Ch.a>>,
    <<Ch.zh, Ch.sp, Ch.a>>,
    <<Ch.a, Ch.zh, Ch.comma, Ch.b>>,
    Runs(1, preferredLineLength * 2 + Slack, 0) }

\* A .backup file that does not exist, and one that holds data.
NoFile == [exists |-> FALSE, data |-> <<>>]
FileOf(data) == [exists |-> TRUE, data |-> data]

\* The formatter is not running on its own: processFile calls it as a function.
FormatterIdle ==
  /\ content = <<>>
  /\ selection = <<>>
  /\ rules = <<>>
  /\ pc = "idle"
  /\ idx = 1
  /\ scan = ScanInit
  /\ protectedRegions = <<>>
  /\ modified = <<>>
  /\ changes = <<>>
  /\ executed = <<>>
  /\ pass = 1
  /\ firstInput = <<>>

\* The command starts on a directory of one to MaxFiles markdown files, none
\* with a backup, with the flags --apply, --backup and --rules as given.
InitBatch ==
  /\ FormatterIdle
  /\ options \in [apply : BOOLEAN, backup : BOOLEAN, rules : {<<>>, <<"spacing">>}]
  /\ \E n \in 1..MaxFiles :
       /\ files = [i \in 1..n |-> i]
       /\ disk \in [file : [1..n -> BatchTexts], backup : {[i \in 1..n |-> NoFile]}]
  /\ fileIdx = 1
  /\ results = <<>>
  /\ stdout = <<>>
  /\ writes = <<>>
  /\ pending = NoPending
  /\ bpc = "loop"

\* What applyFormattingRules may return for the text: one outcome for each
\* order of the marks and of the regions.
FormatOutcomes(text, list) ==
  { applyFormattingRules(text, list, order, regions) :
      order \in MarkOrders,
      regions \in SortedOrders(ScanLines(ScanInit, Split(text), 1).regions) }

\* formatResult, as processFile fills it before it writes anything.
formatResult(filePath, r) ==
  [filePath |-> filePath, changes |-> r.changes,
   hasChanges |-> Len(r.changes) > 0, errors |-> <<>>]

\* A write-back test that ignores --apply.
ShouldWrite_IgnoresApply(opts, result) == result.hasChanges

\* if options.apply && result.hasChanges
ShouldWrite(opts, result) == opts.apply /\ result.hasChanges

\* A loop that stops at the first file that cannot be read.
NextFileAfterError_Abort(i, n) == n + 1

\* continue: the loop goes on with the file after the one that failed.
NextFileAfterError(i, n) == i + 1

\* The loop of processFiles is at a file.
InLoop == bpc = "loop" /\ fileIdx <= Len(files)

\* A call of os.WriteFile, for the log.
WriteCall(path, file, ok) == [path |-> path, file |-> file, ok |-> ok]

\* The disk after os.WriteFile(backupPath, content) succeeded.
WithBackup(d, file) == [d EXCEPT !.backup[file] = FileOf(d.file[file])]

\* The disk and the log after the backup step of processFile, when it succeeds
\* or is not asked for.
AfterBackup(file) ==
  IF options.backup
    THEN [disk |-> WithBackup(disk, file),
          writes |-> Append(writes, WriteCall("backup", file, TRUE))]
    ELSE [disk |-> disk, writes |-> writes]

\* os.ReadFile fails: processFile returns the error, processFiles prints it and
\* goes on.
ReadFileFails ==
  /\ InLoop
  /\ stdout' = Append(stdout, [kind |-> "Error processing", file |-> files[fileIdx],
                               changes |-> 0, errors |-> 1])
  /\ fileIdx' = NextFileAfterError(fileIdx, Len(files))
  /\ UNCHANGED <<options, files, disk, results, writes, bpc, pending>>
  /\ UNCHANGED fmtVars

\* The file is read and formatted: the result holds the changes. A panic of the
\* formatter ends the command.
FormatFile ==
  /\ InLoop
  /\ \E r \in FormatOutcomes(disk.file[files[fileIdx]], options.rules) :
       IF r.panic
         THEN bpc' = "panic" /\ UNCHANGED pending
         ELSE /\ bpc' = "formatted"
              /\ pending' = [result |-> formatResult(files[fileIdx], r),
                             modifiedContent |-> r.text]
  /\ UNCHANGED <<options, files, disk, fileIdx, results, stdout, writes>>
  /\ UNCHANGED fmtVars

\* processFile returns its result; the loop of processFiles appends it.
Returned(result) ==
  /\ results' = Append(results, result)
  /\ fileIdx' = fileIdx + 1
  /\ bpc' = "loop"
  /\ pending' = NoPending
  /\ UNCHANGED <<options, files, stdout>>
  /\ UNCHANGED fmtVars

\* Preview, or a file with no change: the result is returned, nothing is written.
ProcessFileNoWrite ==
  /\ bpc = "formatted"
  /\ ~ShouldWrite(options, pending.result)
  /\ Returned(pending.result)
  /\ UNCHANGED <<disk, writes>>

\* A processFile that goes on to the write of the target whatever the write of
\* the backup returned.
ReachesTargetWrite_Always(backupOk) == TRUE

\* Whether processFile reaches the write of the target after the backup step:
\* when the write of the backup fails it returns the result at once.
ReachesTargetWrite(backupOk) == backupOk

\* The write of the backup fails: the error is kept in the result, the target
\* is not written. The backup file is left absent or empty.
ProcessFileBackupFails ==
  /\ bpc = "formatted"
  /\ ShouldWrite(options, pending.result)
  /\ options.backup
  /\ Returned([pending.result EXCEPT !.errors = <<"failed to create backup">>])
  /\ \E d \in {disk, [disk EXCEPT !.backup[files[fileIdx]] = FileOf(<<>>)]} :
       IF ReachesTargetWrite(FALSE)
         THEN /\ disk' = [d EXCEPT !.file[files[fileIdx]] = pending.modifiedContent]
              /\ writes' = writes \o <<WriteCall("backup", files[fileIdx], FALSE),
                                       WriteCall("target", files[fileIdx], TRUE)>>
         ELSE /\ disk' = d
              /\ writes' = Append(writes, WriteCall("backup", files[fileIdx], FALSE))

\* The write of the target fails, after the backup if one was asked for: the
\* error is kept in the result. The target is left as it was or truncated.
ProcessFileWriteFails ==
  /\ bpc = "formatted"
  /\ ShouldWrite(options, pending.result)
  /\ Returned([pending.result EXCEPT !.errors = <<"failed to write file">>])
  /\ disk' \in {AfterBackup(files[fileIdx]).disk,
                [AfterBackup(files[fileIdx]).disk EXCEPT !.file[files[fileIdx]] = <<>>]}
  /\ writes' = Append(AfterBackup(files[fileIdx]).writes,
                      WriteCall("target", files[fileIdx], FALSE))

\* The modified content is written to the target, after the backup if one was
\* asked for.
ProcessFileWrites ==
  /\ bpc = "formatted"
  /\ ShouldWrite(options, pending.result)
  /\ Returned(pending.result)
  /\ disk' = [AfterBackup(files[fileIdx]).disk EXCEPT
                !.file[files[fileIdx]] = pending.modifiedContent]
  /\ writes' = Append(AfterBackup(files[fileIdx]).writes,
                      WriteCall("target", files[fileIdx], TRUE))

\* The line displayResults prints for one result.
ReportLine(result) ==
  [kind |-> IF Len(result.errors) > 0 THEN "ERROR"
            ELSE IF result.hasChanges
              THEN IF options.apply THEN "APPLIED" ELSE "PREVIEW"
            ELSE "CLEAN",
   file |-> result.filePath,
   changes |-> Len(result.changes),
   errors |-> Len(result.errors)]

RECURSIVE SumOver(_, _, _)
\* totalChanges and totalErrors: the sum of the field over the results 1..n.
SumOver(rs, field, n) ==
  IF n = 0 THEN 0
  ELSE SumOver(rs, field, n - 1)
       + (IF field = "changes" THEN Len(rs[n].changes) ELSE Len(rs[n].errors))

\* displayResults: one line for each result, then the summary.
DisplayResults ==
  /\ bpc = "loop"
  /\ fileIdx > Len(files)
  /\ stdout' = stdout \o [i \in 1..Len(results) |-> ReportLine(results[i])]
                 \o <<[kind |-> "Summary", file |-> Len(results),
                       changes |-> SumOver(results, "changes", Len(results)),
                       errors |-> SumOver(results, "errors", Len(results))]>>
  /\ bpc' = "displayed"
  /\ UNCHANGED <<options, files, disk, fileIdx, results, writes, pending>>
  /\ UNCHANGED fmtVars

NextBatch ==
  \/ ReadFileFails
  \/ FormatFile
  \/ ProcessFileNoWrite
  \/ ProcessFileBackupFails
  \/ ProcessFileWriteFails
  \/ ProcessFileWrites
  \/ DisplayResults

BatchSpec == InitBatch /\ [][NextBatch]_vars

(***************************************************************************)
(* Properties.                                                             *)
(***************************************************************************)
origLines == Split(content)
outLines == Split(modified)

FullPipeline == <<"spacing", "punctuation", "linebreaks">>

\* The first rule of the loop has been applied, to the text the regions were
\* identified on, and no other.
FirstRuleApplied(rule) == pc \in {"rules", "done"} /\ executed = <<rule>>

\* Whether needle occurs in hay as a contiguous run.
OccursIn(needle, hay) ==
  \E off \in 0..(Len(hay) - Len(needle)) :
    SubSeq(hay, off + 1, off + Len(needle)) = needle

\* The bytes of text that region r spans.
RegionBytes(text, r) == SubSeq(Bytes(text), r.start + 1, r.end)

\* C1: whichever rule is applied to a text with the regions identified on that
\* text, the content of every region (code block, inline code, HTML comment,
\* shortcode) is byte-identical in the rule's output: the bytes the region spans
\* are still there, as one run.
C1_RegionContentKept ==
  (pc \in {"rules", "done"} /\ Len(executed) = 1) =>
    \A i \in 1..Len(protectedRegions) :
      OccursIn(RegionBytes(content, protectedRegions[i]), Bytes(modified))

\* The lines of the original text that lie inside region r.
LinesInside(r) ==
  {k \in 1..Len(origLines) :
     /\ LineStartOf(origLines, k) >= r.start
     /\ LineStartOf(origLines, k) + ByteLen(origLines[k]) <= r.end}

\* The lines of the original text inside region r are lines of the output, in
\* the same order and next to each other.
LinesKept(r) ==
  LinesInside(r) = {} \/
    LET a == CHOOSE k \in LinesInside(r) : \A m \in LinesInside(r) : k <= m
    IN \E j \in 0..(Len(outLines) - Cardinality(LinesInside(r))) :
         \A k \in LinesInside(r) : outLines[j + k - a + 1] = origLines[k]

\* C2: after the full pipeline (spacing, punctuation, linebreaks, the regions
\* scanned once from the original text), every line inside a closed fenced code
\* block of the original text is byte-identical in the output.
C2_FencedLinesKept ==
  (pc = "done" /\ executed = FullPipeline) =>
    \A i \in 1..Len(protectedRegions) :
      protectedRegions[i].regionType = "code_block" => LinesKept(protectedRegions[i])

\* C3: the full pipeline is idempotent: run again on its own output, with the
\* regions scanned from that output, it returns the same text and records no change.
C3_Idempotent ==
  (pass = 2 /\ pc = "done" /\ executed = FullPipeline) =>
    (modified = content /\ changes = <<>>)

\* The place of a rule in the order spacing, punctuation, linebreaks.
Rank(rule) ==
  IF rule = "spacing" THEN 1 ELSE IF rule = "punctuation" THEN 2 ELSE 3

C5_NoPanic == pc # "panic"

\* The line of 1-based index k of the text is inside one of the regions.
Protected(k) == LineProtectedAt(origLines, k, protectedRegions)

\* C6: a code fence, an HTML comment or a comment-style shortcode that is still
\* open at the end of the text protects every line from its opening line to the
\* last line: each of them is inside a returned region.
C6_UnterminatedProtected ==
  pc \in {"rules", "done"} =>
    /\ scan.inCodeBlock =>
         \A k \in 1..Len(origLines) :
           LineStartOf(origLines, k) >= scan.codeBlockStart => Protected(k)
    /\ scan.inHugoShortcode =>
         \A k \in 1..Len(origLines) :
           LineStartOf(origLines, k) >= scan.hugoStart => Protected(k)
    /\ scan.inHtmlComment =>
         \A k \in 1..Len(origLines) :
           LineStartOf(origLines, k) + ByteLen(origLines[k]) >= scan.commentStart
             => Protected(k)

IsFenceLine(line) == HasPrefix(TrimSpace(line), Fence)

\* The text is one closed fenced code block: a fence line first, a fence line
\* last, none between.
SoleFencedBlock(text) ==
  LET lines == Split(text)
  IN /\ Len(lines) >= 2
     /\ IsFenceLine(lines[1])
     /\ IsFenceLine(lines[Len(lines)])
     /\ \A k \in 2..(Len(lines) - 1) : ~IsFenceLine(lines[k])

\* C7: a text that is one closed fenced code block is left unchanged, with no
\* change record, by every rule, whatever its lines hold.
C7_SoleBlockUnchanged ==
  SoleFencedBlock(content) => (modified = content /\ changes = <<>> /\ pc # "panic")

C7_Witness ==
  /\ content = Join(<<Fence, LongMixed, Fence>>)
  /\ pc = "done"
  /\ executed = FullPipeline
  /\ changes = <<>>

\* A CJK ideograph (U+4E00-U+9FFF) next to an ASCII letter or digit, in either order.
BareBoundary(line, i) ==
  /\ i < Len(line)
  /\ \/ (isChinese(line[i]) /\ IsAlnum(line[i + 1]))
     \/ (IsAlnum(line[i]) /\ isChinese(line[i + 1]))

NoBareBoundary(line) == \A i \in 1..Len(line) : ~BareBoundary(line, i)

\* C8: after the spacing rule no unprotected line has a CJK ideograph
\* (U+4E00-U+9FFF) next to an ASCII letter or digit.
C8_SpacingComplete ==
  FirstRuleApplied("spacing") =>
    \A k \in 1..Len(origLines) : ~Protected(k) => NoBareBoundary(outLines[k])

\* C9: the spacing rule returns a line whose CJK/ASCII boundaries are all
\* separated already unchanged and records no change for it; applied to its own
\* output, the rule changes nothing.
C9_SpacingStable ==
  /\ FirstRuleApplied("spacing") =>
       \A k \in 1..Len(origLines) :
         NoBareBoundary(origLines[k]) =>
           /\ outLines[k] = origLines[k]
           /\ \A i \in 1..Len(changes) : changes[i].line # k
  /\ (pass = 2 /\ selection = <<"spacing">> /\ FirstRuleApplied("spacing")) =>
       (modified = content /\ changes = <<>>)

C9_Witness ==
  /\ pass = 2
  /\ selection = <<"spacing">>
  /\ pc = "done"
  /\ firstInput # content
  /\ \E k \in 1..Len(origLines) :
       /\ ~Protected(k)
       /\ \E i \in 1..Len(origLines[k]) : isChinese(origLines[k][i])
       /\ \E i \in 1..Len(origLines[k]) : IsAlnum(origLines[k][i])

\* A line with each of the five ASCII marks replaced by its full-width mark.
AllMarksConverted(line) ==
  [i \in 1..Len(line) |->
     IF line[i] \in DOMAIN punctuationMap THEN punctuationMap[line[i]] ELSE line[i]]

\* C10: the punctuation rule replaces every one of the five ASCII marks, and
\* nothing else, on an unprotected line that holds a CJK ideograph
\* (U+4E00-U+9FFF), is not front matter and matches no exclusion; a line with no
\* CJK ideograph and a protected line are byte-identical after the rule.
C10_PunctuationRule ==
  FirstRuleApplied("punctuation") =>
    \A k \in 1..Len(origLines) :
      LET line == origLines[k]
          cjk == \E i \in 1..Len(line) : isChinese(line[i])
      IN /\ (~Protected(k) /\ cjk /\ ~IsFrontMatter(line)
             /\ ~ColonExcluded(line) /\ ~BangExcluded(line))
              => outLines[k] = AllMarksConverted(line)
         /\ (~cjk \/ Protected(k)) => outLines[k] = line

\* The shapes that keep the colons of a line: "://", digit:digit, a leading key.
ColonShape(line) ==
  \/ Contains(line, <<Ch.colon, Ch.slash, Ch.slash>>)
  \/ \E i \in 1..(Len(line) - 2) :
       IsDigit(line[i]) /\ line[i + 1] = Ch.colon /\ IsDigit(line[i + 2])
  \/ HasYamlKey(line)

\* The shapes that keep the exclamation marks of a line: "![", "<!--", a backtick
\* next to an exclamation mark on either side (the full-width mark wrapped in
\* backticks and full-width parentheses included).
BangShape(line) ==
  \/ Contains(line, <<Ch.bang, Ch.lbrk>>)
  \/ Contains(line, CommentOpen)
  \/ Contains(line, <<Ch.tick, Ch.bang>>)
  \/ Contains(line, <<Ch.bang, Ch.tick>>)
  \/ Contains(line, <<Ch.flpar, Ch.tick, Ch.fbang, Ch.tick, Ch.frpar>>)

\* Every rune of line that is mark is the same rune in out.
MarkKept(line, out, mark) ==
  \A i \in 1..Len(line) : line[i] = mark => out[i] = mark

\* Every rune of line that is mark is its full-width mark in out.
MarkConverted(line, out, mark) ==
  \A i \in 1..Len(line) : line[i] = mark => out[i] = punctuationMap[mark]

\* C11: the exclusions of the punctuation rule are line-wide and per mark. On a
\* line with "://", a digit:digit time or a leading key no colon is rewritten,
\* wherever it stands on the line; on a line with "![", "<!--" or a backtick
\* next to an exclamation mark no exclamation mark is rewritten; on such a line,
\* when the rule converts it (unprotected, CJK, not front matter), every other
\* mark is converted all the same, unless its own exclusion keeps it.
C11_ExclusionsPerMark ==
  FirstRuleApplied("punctuation") =>
    \A k \in 1..Len(origLines) :
      LET line == origLines[k]
          out == outLines[k]
          converts == ~Protected(k) /\ HasHan(line) /\ ~IsFrontMatter(line)
      IN /\ Len(out) = Len(line)
         /\ ColonShape(line) => MarkKept(line, out, Ch.colon)
         /\ BangShape(line) => MarkKept(line, out, Ch.bang)
         /\ (converts /\ (ColonShape(line) \/ BangShape(line))) =>
              /\ \A m \in {Ch.comma, Ch.semi, Ch.quest} : MarkConverted(line, out, m)
              /\ ~ColonShape(line) => MarkConverted(line, out, Ch.colon)
              /\ ~BangShape(line) => MarkConverted(line, out, Ch.bang)

\* The rule has run on "CJK https://a:1,": both colons are kept, the comma converted.
C11_Witness ==
  /\ pc = "done"
  /\ selection = <<"punctuation">>
  /\ Contains(content, <<Ch.colon, Ch.slash, Ch.slash>>)
  /\ Count(content, Ch.colon) = 2
  /\ Count(modified, Ch.colon) = 2
  /\ Count(content, Ch.comma) = 1
  /\ Count(modified, Ch.fcomma) = 1

\* The change records of the linebreak rule.
BreakChanges == SelectSeq(changes, LAMBDA c : c.rule = "linebreaks")

\* An all-ASCII line of 130 code points whose only space is its code point 95,
\* counted from 1 or from 0.
OneSpaceLine(line) ==
  /\ Len(line) = 130
  /\ \A i \in 1..Len(line) : line[i] < 128
  /\ \E at \in {95, 96} : {i \in 1..Len(line) : line[i] = Ch.sp} = {at}

HasCompleteLink(line) ==
  \E j \in 1..Len(line) :
    /\ MatchAt(line, <<Ch.rbrk, Ch.lpar>>, j)
    /\ \E i \in 1..(j - 1) : line[i] = Ch.lbrk
    /\ \E l \in (j + 2)..Len(line) : line[l] = Ch.rpar

\* A bare URL on the line.
HasBareUrl(line) ==
  \/ Contains(line, <<Ch.h, Ch.t, Ch.t, Ch.p, Ch.colon, Ch.slash, Ch.slash>>)
  \/ Contains(line, <<Ch.h, Ch.t, Ch.t, Ch.p, Ch.s, Ch.colon, Ch.slash, Ch.slash>>)

\* C13: the linebreak rule never splits a line that holds a complete markdown
\* link or a bare URL, whatever its length and whatever else it holds: no change
\* of the rule has such a line as the line it broke.
C13_LinkLinesNeverSplit ==
  \A i \in 1..Len(BreakChanges) :
    ~(HasCompleteLink(BreakChanges[i].before) \/ HasBareUrl(BreakChanges[i].before))

\* A markdown link as the rule tests it: "](" on the line and as many "[" as "]".
HasBalancedLink(line) ==
  /\ Contains(line, <<Ch.rbrk, Ch.lpar>>)
  /\ Count(line, Ch.lbrk) = Count(line, Ch.rbrk)

\* C13 as amended: the linebreak rule never splits a line that holds "http://"
\* or "https://", or that holds "](" and as many "[" as "]"; a line whose link
\* comes with an unmatched bracket is split like any other line.
C13_BalancedLinkLinesNeverSplit ==
  /\ \A i \in 1..Len(BreakChanges) :
       ~(HasBalancedLink(BreakChanges[i].before) \/ HasBareUrl(BreakChanges[i].before))
  /\ FirstRuleApplied("linebreaks") =>
       \A k \in 1..Len(origLines) :
         (/\ HasCompleteLink(origLines[k]) /\ ~HasBalancedLink(origLines[k])
          /\ ~HasBareUrl(origLines[k])
          /\ ~Protected(k) /\ ~shouldSkipLineBreaking(origLines[k])
          /\ Len(origLines[k]) > maxLineLength)
           => \E i \in 1..Len(changes) : changes[i].line = k

\* The rule has run on a line of more than 120 code points that holds a link and
\* as many "[" as "]", and nothing else that would keep it, and has left it whole.
C13_Witness ==
  /\ pc = "done"
  /\ executed = <<"linebreaks">>
  /\ modified = content
  /\ \E k \in 1..Len(origLines) :
       /\ Len(origLines[k]) > maxLineLength
       /\ HasCompleteLink(origLines[k])
       /\ HasBalancedLink(origLines[k])
       /\ ~HasBareUrl(origLines[k])
       /\ ~Protected(k)

\* C14: smartLineBreak returns a line of at most 120 code points as the only
\* element of its result, so the linebreak rule records no change for such a line
\* and returns a text whose lines all are at most 120 code points long as it is,
\* lines longer than the preferred 80 included.
C14_ShortLinesKept ==
  /\ \A i \in 1..Len(BreakChanges) : Len(BreakChanges[i].before) > maxLineLength
  /\ \A k \in 1..Len(outLines) :
       Len(outLines[k]) <= maxLineLength =>
         smartLineBreak(outLines[k], maxLineLength, preferredLineLength)
           = Ok(<<outLines[k]>>)
  /\ (FirstRuleApplied("linebreaks")
      /\ \A k \in 1..Len(origLines) : Len(origLines[k]) <= maxLineLength) =>
       (modified = content /\ changes = <<>>)

\* The rule has run on an unprotected line of 81 to 120 code points that no test
\* of shouldSkipLineBreaking keeps, and has left it as it was.
C14_Witness ==
  /\ pc = "done"
  /\ executed = <<"linebreaks">>
  /\ modified = content
  /\ changes = <<>>
  /\ \E k \in 1..Len(origLines) :
       /\ Len(origLines[k]) > preferredLineLength
       /\ Len(origLines[k]) <= maxLineLength
       /\ ~Protected(k)
       /\ ~shouldSkipLineBreaking(origLines[k])

\* C15: whenever the linebreak rule splits a line, every line it puts in its
\* place, the indentation it gives back included, has at most 120 code points.
C15_EmittedWithinMax ==
  \A i \in 1..Len(BreakChanges) :
    \A k \in 1..Len(Split(BreakChanges[i].after)) :
      Len(Split(BreakChanges[i].after)[k]) <= maxLineLength

\* What applyFormattingRules returns for the text and the selection of the run
\* when the marks are visited in the order of the map literal and regions with
\* equal start keep the order the scanner found them in.
ReferenceRun ==
  applyFormattingRules(content, selection, HalfWidthMarks,
                       identifyProtectedRegions(content))

\* C16: the outcome of a run is a function of the text and the rule selection:
\* whatever the order in which the punctuation rule visits its five marks and
\* whatever the relative order of regions with equal start, the run returns the
\* same text and the same change list (or panics on the same input).
C16_Deterministic ==
  pc \in {"done", "panic"} =>
    \A ref \in {ReferenceRun} :
      IF pc = "panic" THEN ref.panic
      ELSE ~ref.panic /\ modified = ref.text /\ changes = ref.changes

\* A run that had two different regions with the same start in one of their
\* orders, visited the marks in one of their orders, and converted two marks.
C16_Witness ==
  /\ pc = "done"
  /\ \E i, j \in 1..Len(protectedRegions) :
       /\ i < j
       /\ protectedRegions[i].start = protectedRegions[j].start
       /\ protectedRegions[i].end > protectedRegions[j].end
  /\ \E i \in 1..Len(changes) :
       /\ changes[i].rule = "punctuation"
       /\ Contains(changes[i].after, <<Ch.fcomma, Ch.fsemi>>)

\* C17: an empty rule selection behaves exactly as the selection spacing,
\* punctuation, linebreaks: the run returns the text and the change list that
\* the three rules, applied in that order, return.
C17_EmptyIsDefault ==
  (selection = <<>> /\ pc \in {"done", "panic"}) =>
    \E ref \in { RunRules([text |-> content, changes |-> <<>>, panic |-> FALSE],
                          FullPipeline, 1, protectedRegions, order) :
                   order \in MarkOrders } :
      IF pc = "panic" THEN ref.panic
      ELSE ~ref.panic /\ modified = ref.text /\ changes = ref.changes

\* A run with an empty selection that applied the three rules and changed the text.
C17_Witness ==
  /\ pc = "done"
  /\ selection = <<>>
  /\ executed = FullPipeline
  /\ modified # content
  /\ \E i \in 1..Len(changes) : changes[i].rule = "linebreaks"

\* Some single region of rs holds the whole line of 1-based index k of lines.
CoveredByOne(lines, k, rs) ==
  \E i \in 1..Len(rs) :
    /\ rs[i].start <= LineStartOf(lines, k)
    /\ LineStartOf(lines, k) + ByteLen(lines[k]) <= rs[i].end

\* The change records the step has added.
NewChanges == SubSeq(changes', Len(changes) + 1, Len(changes'))

\* What one step of a rule does with each line of the text it is given.
ProtectionStep ==
  LET lines == Split(modified)
      out == Split(modified')
      covered(k) == CoveredByOne(lines, k, protectedRegions)
      recorded(k) == \E i \in 1..Len(NewChanges) : NewChanges[i].line = k
  IN /\ AtRule("spacing") =>
          \A k \in 1..Len(lines) :
            /\ out[k] = IF covered(k) THEN lines[k] ELSE SpaceLine(lines[k])
            /\ covered(k) => ~recorded(k)
     /\ AtRule("punctuation") =>
          \A k \in 1..Len(lines) :
            /\ IF covered(k) THEN out[k] = lines[k]
               ELSE \E order \in MarkOrders : out[k] = PunctLine(lines[k], order)
            /\ covered(k) => ~recorded(k)
     /\ (AtRule("linebreaks") /\ pc' # "panic") =>
          \A k \in 1..Len(lines) :
            /\ covered(k) => ~recorded(k)
            /\ (~covered(k) /\ ~shouldSkipLineBreaking(lines[k])
                /\ Len(lines[k]) > maxLineLength) => recorded(k)

\* C20: in each of the three rules a line of the rule's input text is skipped
\* untouched if and only if some single region holds its whole span
\* [lineStart, lineEnd): such a line is returned as it is with no change
\* recorded, and every other line, one that regions overlap in part or cover
\* only together included, is given to the rule like a line no region touches.
C20_LineProtectionTest == [][ProtectionStep]_vars

\* The spacing rule has rewritten a line that two regions cover together and
\* neither covers alone.
C20_Witness ==
  /\ pc = "done"
  /\ executed = <<"spacing">>
  /\ Len(origLines) = 1
  /\ modified # content
  /\ ~CoveredByOne(origLines, 1, protectedRegions)
  /\ \E i, j \in 1..Len(protectedRegions) :
       /\ protectedRegions[i].start = 0
       /\ protectedRegions[i].end = protectedRegions[j].start
       /\ protectedRegions[j].end = ByteLen(content)

\* The result the step has appended.
LastResult == results'[Len(results')]

\* What one step of the command may do to the files.
WriteStep ==
  /\ ~options.apply => (disk' = disk /\ writes' = writes)
  /\ (disk' # disk \/ writes' # writes) =>
       /\ options.apply
       /\ Len(results') = Len(results) + 1
       /\ LastResult.hasChanges
       /\ Len(LastResult.changes) > 0
       /\ \A f \in DOMAIN disk.file :
            /\ disk'.file[f] # disk.file[f] => f = LastResult.filePath
            /\ disk'.backup[f] # disk.backup[f] => f = LastResult.filePath
  /\ \A i \in 1..Len(results') :
       results'[i].hasChanges <=> (Len(results'[i].changes) > 0)

\* C18: preview is the default. Without --apply no step of the command writes or
\* creates a file, target or .backup; with --apply a file is written only in
\* the step that returns a result with hasChanges for that very file; and
\* hasChanges is true exactly when the change list of the result is not empty.
C18_PreviewWritesNothing == [][WriteStep]_vars

\* A command run with --apply that has overwritten one file, for which changes
\* were recorded, and has left alone another, for which none was.
C18_Witness ==
  /\ bpc = "displayed"
  /\ options.apply
  /\ \E i, j \in 1..Len(results) :
       /\ results[i].hasChanges
       /\ \E w \in 1..Len(writes) :
            /\ writes[w] = WriteCall("target", results[i].filePath, TRUE)
       /\ ~results[j].hasChanges
       /\ \A w \in 1..Len(writes) : writes[w].file # results[j].filePath

\* A line of the output names the file.
Reported(f) ==
  \E i \in 1..Len(stdout) : stdout[i].kind # "Summary" /\ stdout[i].file = f

\* C19: an I/O failure on one file of a batch is reported for that file and does
\* not end the batch: once the results are displayed, every collected file has
\* its line in the output (the error of its read, or the line of its result), and
\* every write that failed, of a target or of a backup, shows as an ERROR line
\* of its file.
C19_BatchContinues ==
  bpc = "displayed" =>
    /\ \A k \in 1..Len(files) : Reported(files[k])
    /\ Len(results) + Cardinality({i \in 1..Len(stdout) :
                                     stdout[i].kind = "Error processing"})
         = Len(files)
    /\ \A w \in 1..Len(writes) :
         ~writes[w].ok =>
           \E i \in 1..Len(stdout) :
             stdout[i].kind = "ERROR" /\ stdout[i].file = writes[w].file

\* A batch of two files: the first could not be read, the write of the second
\* failed, and both are in the output.
C19_Witness ==
  /\ bpc = "displayed"
  /\ Len(files) = 2
  /\ \E i \in 1..Len(stdout) :
       stdout[i].kind = "Error processing" /\ stdout[i].file = files[1]
  /\ \E i \in 1..Len(stdout) :
       stdout[i].kind = "ERROR" /\ stdout[i].file = files[2]
  /\ \E w \in 1..Len(writes) : ~writes[w].ok /\ writes[w].file = files[2]


\* The line holds one of the markers.
HasAny(line, markers) == \E m \in markers : Contains(line, m)

\* The kinds of span that may run over several lines, each with its opening and
\* its closing markers.
SpanKinds ==
  { [open |-> {CommentOpen}, close |-> {CommentClose}],
    [open |-> {HugoOpen1, HugoOpen2}, close |-> {HugoClose1, HugoClose2}] }

\* A span of the kind opens on line i and closes on line j of the original text:
\* line i is the first line with an opening marker and has no closing marker,
\* line j is the first line after it with a closing marker, and no line up to j
\* is a fence line.
SpanFromTo(kind, i, j) ==
  /\ i < j
  /\ HasAny(origLines[i], kind.open)
  /\ ~HasAny(origLines[i], kind.close)
  /\ \A h \in 1..(i - 1) : ~HasAny(origLines[h], kind.open)
  /\ HasAny(origLines[j], kind.close)
  /\ \A h \in (i + 1)..(j - 1) : ~HasAny(origLines[h], kind.close)
  /\ \A h \in 1..j : ~HasPrefix(TrimSpace(origLines[h]), Fence)

\* C21: once an HTML comment or a comment-style shortcode that runs over several
\* lines is open, every line from its opening line to its closing line, both
\* included, lies whole inside one returned region, even when the closing line
\* goes on after the closing marker.
C21_SpanLinesProtected ==
  (pc = "rules" /\ idx = 1) =>
    \A kind \in SpanKinds :
      \A i, j \in 1..Len(origLines) :
        SpanFromTo(kind, i, j) => \A k \in i..j : Protected(k)


\* The scanner's variables after the first k lines of the original text.
ScanAfter(k) == ScanLines(ScanInit, SubSeq(origLines, 1, k), 1)

\* The fence lines of the original text, and the place of each among them.
FenceLines == {k \in 1..Len(origLines) : IsFenceLine(origLines[k])}
FenceRank(k) == Cardinality({h \in FenceLines : h <= k})
FenceOfRank(r) == CHOOSE k \in FenceLines : FenceRank(k) = r

\* The code-block regions the scanner has emitted, in the order of emission.
CodeBlockRegions == SelectSeq(scan.regions, LAMBDA r : r.regionType = "code_block")

\* Each fence line toggles inCodeBlock.
FenceToggles ==
  \A k \in 1..Len(origLines) : ScanAfter(k).inCodeBlock = (FenceRank(k) % 2 = 1)

\* One code-block region for each pair of fence lines, from the start of the
\* opening line to the end of the closing line.
OneRegionPerPair ==
  CodeBlockRegions =
    [m \in 1..(Cardinality(FenceLines) \div 2) |->
       Region(LineStartOf(origLines, FenceOfRank(2 * m - 1)),
              LineStartOf(origLines, FenceOfRank(2 * m))
                + ByteLen(origLines[FenceOfRank(2 * m)]),
              "code_block")]

\* Line k is left to the fence detection alone: the comment and shortcode states
\* are what they were before the line and the only region added, if any, is a
\* code block.
NoOtherDetection(k) ==
  /\ ScanAfter(k).inHtmlComment = ScanAfter(k - 1).inHtmlComment
  /\ ScanAfter(k).inHugoShortcode = ScanAfter(k - 1).inHugoShortcode
  /\ \A i \in (Len(ScanAfter(k - 1).regions) + 1)..Len(ScanAfter(k).regions) :
       ScanAfter(k).regions[i].regionType = "code_block"

\* Line k belongs to a code block: an opening fence line, a line between the
\* fence lines of a pair, or a closing fence line.
InCodeBlock(k) == FenceRank(k) % 2 = 1 \/ k \in FenceLines

\* C22: each fence line toggles inCodeBlock; each pair of fence lines (1st/2nd,
\* 3rd/4th, ...) emits exactly one code-block region from the start of the
\* opening line to the end of the closing line; and on every line that belongs
\* to a code block, the closing fence line included, no other detection runs.
C22_FenceStateMachine ==
  (pc = "rules" /\ idx = 1) =>
    /\ FenceToggles
    /\ OneRegionPerPair
    /\ \A k \in 1..Len(origLines) : InCodeBlock(k) => NoOtherDetection(k)

\* C22 as amended: no other detection runs on the lines read while inCodeBlock
\* is true after the toggle, which are the opening fence line and the lines
\* between the two fence lines; the closing fence line sets inCodeBlock to false
\* and is then scanned like a line outside a code block.
C22_FenceStateMachineWhileOpen ==
  (pc = "rules" /\ idx = 1) =>
    /\ FenceToggles
    /\ OneRegionPerPair
    /\ \A k \in 1..Len(origLines) :
         ScanAfter(k).inCodeBlock => NoOtherDetection(k)

\* The scanner has read a closed code block that holds a line with an opening
\* comment marker or backticks between its fence lines, and a closing fence
\* line on which another detection has run.
C22_Witness ==
  /\ pc = "rules" /\ idx = 1
  /\ Len(CodeBlockRegions) = 1
  /\ \E k \in 1..Len(origLines) :
       /\ k \in FenceLines /\ FenceRank(k) = 2
       /\ ~NoOtherDetection(k)
  /\ \E k \in 1..Len(origLines) :
       /\ k \notin FenceLines /\ FenceRank(k) = 1
       /\ Len(origLines[k]) > 0


\* The break point the priority order gives for a line: the candidates of the
\* highest-priority kind present in the window, and of them the one of highest
\* index; -1 if there is no candidate and the line is not longer than the
\* maximum.
BreakPointByPriority(line) ==
  LET n == Len(line)
      window == {i \in (preferredLineLength \div 2)..preferredLineLength : i < n}
      byteWindow == {i \in (preferredLineLength \div 2)..preferredLineLength :
                       i < ByteLen(line)}
      sentence == {i \in window : line[i + 1] \in {Ch.fstop, Ch.fbang, Ch.fquest}}
      clause == {i \in window : line[i + 1] \in {Ch.fcomma, Ch.fsemi, Ch.fcolon}}
      space == {i \in byteWindow : Bytes(line)[i + 1] = Ch.sp}
      transition == {i \in window :
                       i + 1 < n /\ isChinese(line[i + 1]) # isChinese(line[i + 2])}
  IN IF sentence # {} THEN MaxOf(sentence) + 1
     ELSE IF clause # {} THEN MaxOf(clause) + 1
     ELSE IF space # {} THEN MaxOf(space) + 1
     ELSE IF transition # {} THEN MaxOf(transition) + 1
     ELSE IF n > maxLineLength THEN preferredLineLength
     ELSE -1

\* The lines the rule has passed to findBestBreakPoint for sure: the lines it
\* has split, and the tails it has emitted that are longer than the preferred
\* length (for a line with no indentation and no list marker the tail is emitted
\* as it was searched).
SearchedLines ==
  {BreakChanges[i].before : i \in 1..Len(BreakChanges)}
  \cup { Split(BreakChanges[i].after)[Len(Split(BreakChanges[i].after))] :
           i \in {j \in 1..Len(BreakChanges) :
                    /\ getIndentation(BreakChanges[j].before) = <<>>
                    /\ ~IsListItem(BreakChanges[j].before)} }

\* C23: findBestBreakPoint applies its heuristics in strict priority order over
\* the window [preferred/2, preferred]: after the highest sentence terminator,
\* else after the highest clause mark, else after a space of the byte window,
\* else at the highest transition between CJK and non-CJK, else at preferred if
\* the line is longer than the maximum; a candidate of lower priority never wins
\* over one of higher priority, whatever their indexes.
C23_PriorityOrder ==
  FirstRuleApplied("linebreaks") =>
    \A line \in SearchedLines :
      Len(line) > preferredLineLength =>
        findBestBreakPoint(line, preferredLineLength, maxLineLength)
          = Ok(BreakPointByPriority(line))


\* The window holds no CJK sentence terminator and no clause mark, and the byte
\* window holds an ASCII space.
SpaceIsBest(line) ==
  /\ \A i \in (preferredLineLength \div 2)..preferredLineLength :
       i < Len(line) =>
         line[i + 1] \notin {Ch.fstop, Ch.fbang, Ch.fquest,
                             Ch.fcomma, Ch.fsemi, Ch.fcolon}
  /\ \E i \in (preferredLineLength \div 2)..preferredLineLength :
       i < ByteLen(line) /\ Bytes(line)[i + 1] = Ch.sp

\* The 1-based index of the rune that is the space found in the byte window: the
\* one of highest byte offset.
FoundSpace(line) ==
  LET found == MaxOf({i \in (preferredLineLength \div 2)..preferredLineLength :
                        i < ByteLen(line) /\ Bytes(line)[i + 1] = Ch.sp})
  IN CHOOSE r \in 1..Len(line) : ByteOffset(line, r) = found

\* C24: when the window holds no CJK sentence terminator and no clause mark and
\* a space is found in the byte window, the prefix smartLineBreak cuts ends with
\* exactly that space, whether or not multi-byte characters precede it: the
\* first line emitted is the line up to that space, trimmed.
C24_CutEndsWithSpace ==
  \A i \in 1..Len(BreakChanges) :
    SpaceIsBest(BreakChanges[i].before) =>
      Split(BreakChanges[i].after)[1]
        = TrimSpace(SubSeq(BreakChanges[i].before, 1,
                           FoundSpace(BreakChanges[i].before)))


\* The segments the rule has put in the place of the line of change c.
Segments(c) == Split(c.after)

\* The indentation a continuation line is given: that of the original line, and
\* two more spaces when the original line is a list item.
ContinuationIndent(line) ==
  getIndentation(line) \o (IF IsListItem(line) THEN <<Ch.sp, Ch.sp>> ELSE <<>>)

\* The segment is trimmed text after the continuation indentation of the line.
IsContinuationOf(segment, line) ==
  /\ HasPrefix(segment, ContinuationIndent(line))
  /\ LET text == SubSeq(segment, Len(ContinuationIndent(line)) + 1, Len(segment))
     IN TrimSpace(text) = text

\* C25: every segment after the first that smartLineBreak emits is the trimmed
\* segment text prefixed by the leading indentation of the original line, and by
\* two more spaces when the original line is a list item; this holds for the
\* segments in the middle and for the final tail alike.
C25_ContinuationIndentation ==
  \A i \in 1..Len(BreakChanges) :
    \A k \in 2..Len(Segments(BreakChanges[i])) :
      IsContinuationOf(Segments(BreakChanges[i])[k], BreakChanges[i].before)


\* s with every white space rune deleted.
NoSpace(s) == SelectSeq(s, LAMBDA c : ~IsSpace(c))

\* C26: for every line smartLineBreak splits, the segments it returns, put
\* together in order and with all white space deleted, are the original line with
\* all white space deleted: no other character is lost, duplicated or reordered,
\* also when a tail longer than the preferred and not longer than the maximum
\* length has no break point.
C26_ContentPreserved ==
  \A i \in 1..Len(BreakChanges) :
    NoSpace(BreakChanges[i].after) = NoSpace(BreakChanges[i].before)

\* C27: when smartLineBreak splits a line that has leading white space, the
\* first segment it emits still begins with the indentation of the original
\* line, and is never empty.
C27_FirstSegmentIndented ==
  \A i \in 1..Len(BreakChanges) :
    getIndentation(BreakChanges[i].before) # <<>> =>
      /\ Segments(BreakChanges[i])[1] # <<>>
      /\ HasPrefix(Segments(BreakChanges[i])[1],
                   getIndentation(BreakChanges[i].before))


\* C28: every region identifyProtectedRegions returns satisfies
\* 0 <= start <= end <= len(text), for every text, the lines on which a closing
\* comment marker comes before an opening one included.
C28_RegionsWellFormed ==
  (pc = "rules" /\ idx = 1) =>
    \A i \in 1..Len(protectedRegions) :
      /\ 0 <= protectedRegions[i].start
      /\ protectedRegions[i].start <= protectedRegions[i].end
      /\ protectedRegions[i].end <= ByteLen(content)


\* The calls of os.WriteFile a step has added to the log.
NewWrites == SubSeq(writes', Len(writes) + 1, Len(writes'))

\* A step in which the write of a .backup file fails: it is made with --apply
\* and --backup, the target of that file is neither written nor changed, no
\* other file is touched, the result returned for the file holds the error, and
\* the loop goes on with the next file.
BackupFailureStep ==
  \A i \in 1..Len(NewWrites) :
    (NewWrites[i].path = "backup" /\ ~NewWrites[i].ok) =>
      /\ options.apply /\ options.backup
      /\ NewWrites[i].file = files[fileIdx]
      /\ disk'.file = disk.file
      /\ \A j \in 1..Len(NewWrites) : NewWrites[j].path # "target"
      /\ Len(results') = Len(results) + 1
      /\ LastResult.filePath = files[fileIdx]
      /\ LastResult.errors = <<"failed to create backup">>
      /\ bpc' = "loop"
      /\ fileIdx' = fileIdx + 1

\* C29: with --apply and --backup, when the write of the .backup file fails the
\* target file is not overwritten, the failure is recorded in the errors of the
\* result, and processFile returns the result with no fatal error: the command
\* goes on with the next file.
C29_BackupFailureKeepsTarget == [][BackupFailureStep]_vars

\* A command run with --apply and --backup in which the backup of the first of
\* two files failed: the file holds what it held, its result holds the error,
\* and the second file has been processed and the results displayed.
C29_Witness ==
  /\ bpc = "displayed"
  /\ options.apply /\ options.backup
  /\ Len(files) = 2 /\ Len(results) = 2
  /\ writes[1] = WriteCall("backup", files[1], FALSE)
  /\ results[1].errors = <<"failed to create backup">>
  /\ results[1].hasChanges
  /\ disk.file[files[1]] # disk.file[files[2]]
  /\ \A w \in 1..Len(writes) : writes[w] # WriteCall("target", files[1], TRUE)
  /\ \E w \in 1..Len(writes) : writes[w] = WriteCall("target", files[2], TRUE)


\* The lines of the text the next rule is applied to.
inLines == Split(modified)

\* What takes the place of line k of the rule's input: the segments
\* smartLineBreak returned when the line is handed to it and comes back as more
\* than one, the line itself otherwise. The protection test is made with the
\* byte offsets of the input text.
SegmentsFor(k) ==
  LET brokenLines == BreakLineAt(inLines, k, protectedRegions)
  IN IF ~brokenLines.panic /\ Len(brokenLines.val) > 1 THEN brokenLines.val
     ELSE <<inLines[k]>>

RECURSIVE SegmentsFrom(_)
\* The segments for the lines k, k + 1, ... of the input, in the order of the lines.
SegmentsFrom(k) ==
  IF k > Len(inLines) THEN <<>> ELSE SegmentsFor(k) \o SegmentsFrom(k + 1)

RECURSIVE SplitsUpTo(_)
\* The change records for the lines k, k - 1, ..., 1 of the input that are split,
\* the last line first, each with the number the line has in the input.
SplitsUpTo(k) ==
  IF k < 1 THEN <<>>
  ELSE (IF Len(SegmentsFor(k)) > 1
          THEN <<Change(k, "linebreaks",
                        <<"Broke long line", Len(inLines[k]), Len(SegmentsFor(k))>>,
                        inLines[k], Join(SegmentsFor(k)))>>
          ELSE <<>>)
       \o SplitsUpTo(k - 1)

\* A step of the linebreak rule that returns.
LineBreakFrameStep ==
  (AtRule("linebreaks") /\ pc' = "rules" /\ idx' = idx + 1) =>
    /\ modified' = Join(SegmentsFrom(1))
    /\ NewChanges = SplitsUpTo(Len(inLines))

\* C30: the output of the linebreak rule is the lines of its input in their
\* order, each split line replaced in place by its segments in the order
\* smartLineBreak returned them and every other line byte-identical; the lines
\* being processed bottom-up, the byte offset of each line's protection test and
\* the line number of each change are those of the rule's input text, whatever
\* was split further down.
C30_LineBreakFrame == [][LineBreakFrameStep]_vars

\* The rule has run on a text of three lines and has split the first and the
\* last: five lines come out, the second of the input is the third of the
\* output, and the changes name the lines 3 and 1.
C30_Witness ==
  /\ pc = "done"
  /\ executed = <<"linebreaks">>
  /\ Len(origLines) = 3
  /\ Len(outLines) = 5
  /\ outLines[3] = origLines[2]
  /\ Len(changes) = 2
  /\ changes[1].line = 3 /\ changes[1].before = origLines[3]
  /\ changes[2].line = 1 /\ changes[2].before = origLines[1]

=============================================================================
